---------------------------- MODULE Spec2Model ----------------------------
(* Account / entitlement engine of the Substack digest bot:                  *)
(* manage_feeds.py (persistent records, privilege hierarchy, rate limiter,  *)
(* subscription ledger), the message router of substack_to_telegram.py and  *)
(* the event handlers of stripe_webhook.py.                                 *)
(*                                                                          *)
(* The four JSON files are the variables config, state, username_map and    *)
(* analytics.  Every Python function that reads or writes them is an        *)
(* operator from the file contents before the call to the file contents     *)
(* after it (and the value returned).  Time is counted in clock ticks, Res  *)
(* ticks to the second, so that time.time() keeps a sub-second part.        *)
EXTENDS Integers, Sequences, FiniteSets, TLC

VARIABLES
    config,        \* bot_config.json: [owner_id, admins]
    state,         \* user_state.json: function from user ids to accounts
    username_map,  \* username_map.json: function from lower-cased handles
    analytics,     \* analytics.json: [payments, events]
    now,           \* the wall clock, in ticks
    ev,            \* the last call made and what it answered
    admitted,      \* per (user, action class): the times of the Allowed answers
    run,           \* what this run exercises and how many clock steps it has left
    pc,            \* concurrent runs: where each process stands
    lcl            \* concurrent runs: each process's in-memory copy and arguments

vars == <<config, state, username_map, analytics, now, ev, admitted, run, pc, lcl>>

-----------------------------------------------------------------------------
(* Bounds of the model *)

Res == 2            \* clock ticks per second
NumUsers == 3       \* identities that talk to the bot
NumHosts == 4       \* distinct feed hosts a user may try to add
MaxTicks == 2       \* clock steps in a rate-limiter run
MaxOver == 2        \* admissions beyond the ceiling in a rate-limiter run
MaxSteps == 2         \* calls in a ledger or chat run
MaxDays == 1          \* clock steps (of a month) in a ledger or chat run
MaxOps == 2         \* operations each concurrent process runs

Sec(n) == n * Res
Days(n) == Sec(n * 86400)

None == "None"      \* JSON null in a text-valued field
NoTime == 0 - 1     \* JSON null in a time-valued field

UserIds == <<"7", "9", "42", "100", "101">>
Users == {UserIds[i] : i \in 1..NumUsers}

Min(a, b) == IF a <= b THEN a ELSE b

SeqToSet(s) == {s[i] : i \in 1..Len(s)}

Take(s, n) == SubSeq(s, 1, Min(n, Len(s)))

RemoveAt(s, i) == SubSeq(s, 1, i - 1) \o SubSeq(s, i + 1, Len(s))

-----------------------------------------------------------------------------
(* Static configuration *)

TIERS ==
    [free |-> [max_feeds |-> 3, digest_frequency |-> "daily",
               ai_summaries |-> FALSE, price_monthly |-> 0],
     pro  |-> [max_feeds |-> 50, digest_frequency |-> "custom",
               ai_summaries |-> TRUE, price_monthly |-> 1]]

RATE_LIMITS ==
    [commands_per_minute |-> 10,
     feeds_add_per_hour |-> 20,
     digest_requests_per_hour |-> 5]

PRO_PRICE_STARS == 50
PRO_DURATION_DAYS == 30
CHECKOUT_PERIOD_DAYS == 30

-----------------------------------------------------------------------------
(* Bot config: owner and admins *)

EmptyConfig == [owner_id |-> None, admins |-> <<>>]

\* What load_config answers: the file, or the default when the read raises.
load_config(file, readable) == IF readable THEN file ELSE EmptyConfig

get_owner_id(cfg) == cfg.owner_id

\* Mutant of set_owner_id: the stored owner is overwritten.
set_owner_id_overwrite(cfg, user_id) == [cfg EXCEPT !.owner_id = user_id]

\* The owner is written only while none is stored.
set_owner_id(cfg, user_id) ==
    IF cfg.owner_id = None THEN [cfg EXCEPT !.owner_id = user_id] ELSE cfg

\* Mutant of is_owner: the comparison with the stored owner is left out.
is_owner_unchecked(cfg, user_id) == get_owner_id(cfg) # None

is_owner(cfg, user_id) ==
    /\ get_owner_id(cfg) # None
    /\ user_id = get_owner_id(cfg)

is_admin(cfg, user_id) == user_id \in SeqToSet(cfg.admins)

is_privileged(cfg, user_id) == is_owner(cfg, user_id) \/ is_admin(cfg, user_id)

-----------------------------------------------------------------------------
(* Username <-> user id directory.  A dict keeps its keys in the order they *)
(* were first set, in memory and in the file: slot is a key's place in it.   *)

\* username.lower().lstrip("@") on the handles of the model
lower(username) == IF username = "Alice" THEN "alice" ELSE username

register_user(map, user_id, username, t) ==
    IF username = None
    THEN map
    ELSE LET username_lower == lower(username)
             slot == IF username_lower \in DOMAIN map
                     THEN map[username_lower].slot
                     ELSE Cardinality(DOMAIN map) + 1
             entry == [user_id |-> user_id, username |-> username, last_seen |-> t,
                       slot |-> slot]
         IN  (username_lower :> entry) @@ map

get_user_id_by_username(map, username) ==
    LET username_lower == lower(username)
    IN  IF username_lower \in DOMAIN map THEN map[username_lower].user_id ELSE None

\* The scan over mapping.items() answers the identity's first entry in the
\* dict's order.
get_username_by_user_id(map, user_id) ==
    LET mine == {k \in DOMAIN map : map[k].user_id = user_id}
    IN  IF mine = {}
        THEN None
        ELSE map[CHOOSE k \in mine : \A j \in mine : map[k].slot <= map[j].slot].username

-----------------------------------------------------------------------------
(* Admin management.  identifier is [username: an @handle] or [user_id: a raw id] *)

resolve(map, identifier) ==
    IF "username" \in DOMAIN identifier
    THEN get_user_id_by_username(map, identifier.username)
    ELSE identifier.user_id

\* Answers [cfg, ok, msg].
add_admin(cfg, map, identifier) ==
    LET user_id == resolve(map, identifier)
    IN  IF user_id = None
        THEN [cfg |-> cfg, ok |-> FALSE, msg |-> "Username not found."]
        ELSE IF is_owner(cfg, user_id)
        THEN [cfg |-> cfg, ok |-> FALSE, msg |-> "Cannot add owner as admin."]
        ELSE IF user_id \in SeqToSet(cfg.admins)
        THEN [cfg |-> cfg, ok |-> FALSE, msg |-> "already an admin"]
        ELSE [cfg |-> [cfg EXCEPT !.admins = Append(@, user_id)],
              ok |-> TRUE, msg |-> "now has free Pro access"]

\* Answers [cfg, ok, msg].  Only the admin list is rewritten.
remove_admin(cfg, map, identifier) ==
    LET user_id == resolve(map, identifier)
        others(a) == a # user_id
    IN  IF user_id = None
        THEN [cfg |-> cfg, ok |-> FALSE, msg |-> "Username not found."]
        ELSE IF user_id \notin SeqToSet(cfg.admins)
        THEN [cfg |-> cfg, ok |-> FALSE, msg |-> "not an admin"]
        ELSE [cfg |-> [cfg EXCEPT !.admins = SelectSeq(@, others)],
              ok |-> TRUE, msg |-> "no longer has admin access"]

-----------------------------------------------------------------------------
(* Accounts *)

ActionClasses == {"command", "feed_add", "digest_request"}

NoSubRef == [kind |-> "none", ref |-> None]

DefaultUser(t) ==
    [feeds |-> <<>>,
     digest_time |-> "08:00",
     last_sent_date |-> NoTime,
     summary_format |-> "scqr",
     custom_prompt |-> None,
     subscription |-> [tier |-> "free",
                       stripe_customer_id |-> None,
                       stripe_subscription_id |-> NoSubRef,
                       expires_at |-> NoTime,
                       created_at |-> t],
     rate_limits |-> [command_timestamps |-> <<>>,
                      feed_add_timestamps |-> <<>>,
                      digest_request_timestamps |-> <<>>],
     security |-> [blocked |-> FALSE, block_reason |-> None, failed_attempts |-> 0]]

\* What load_state answers for the file's content: the content, or {} when
\* open or json.load raised (the file cannot be read, or does not parse at
\* that moment).
load_state(file, readable) == IF readable THEN file ELSE [u \in {} |-> DefaultUser(0)]

\* load_state, then the default account is created and saved when missing.
ensure_user(st, user_id, t) ==
    IF user_id \in DOMAIN st THEN st ELSE (user_id :> DefaultUser(t)) @@ st

-----------------------------------------------------------------------------
(* Security *)

is_user_blocked(st, user_id, t) ==
    LET s1 == ensure_user(st, user_id, t)
        security == s1[user_id].security
    IN  [st |-> s1,
         blocked |-> security.blocked,
         reason |-> IF security.blocked THEN security.block_reason ELSE None]

block_user(st, user_id, reason, t) ==
    LET s1 == ensure_user(st, user_id, t)
    IN  [s1 EXCEPT ![user_id].security.blocked = TRUE,
                   ![user_id].security.block_reason = reason]

unblock_user(st, user_id, t) ==
    LET s1 == ensure_user(st, user_id, t)
    IN  [s1 EXCEPT ![user_id].security.blocked = FALSE,
                   ![user_id].security.block_reason = None,
                   ![user_id].security.failed_attempts = 0]

-----------------------------------------------------------------------------
(* Rate limiting *)

limits_config ==
    [command        |-> [key |-> "command_timestamps", window_seconds |-> 60,
                         max_requests |-> RATE_LIMITS.commands_per_minute],
     feed_add       |-> [key |-> "feed_add_timestamps", window_seconds |-> 3600,
                         max_requests |-> RATE_LIMITS.feeds_add_per_hour],
     digest_request |-> [key |-> "digest_request_timestamps", window_seconds |-> 3600,
                         max_requests |-> RATE_LIMITS.digest_requests_per_hour]]

\* Mutant of prune: the list is kept as it is.
prune_nothing(timestamps, window, t) == timestamps

\* [ts for ts in timestamps if now - ts < window_seconds]
prune(timestamps, window, t) ==
    LET fresh(ts) == t - ts < window
    IN  SelectSeq(timestamps, fresh)

\* Mutant of at_ceiling: the ceiling test is off by one.
at_ceiling_strict(timestamps, max_requests) == Len(timestamps) > max_requests

\* len(timestamps) >= max_requests
at_ceiling(timestamps, max_requests) == Len(timestamps) >= max_requests

\* int(window_seconds - (now - timestamps[0])), in whole seconds
wait_time(timestamps, window, t) == (window - (t - timestamps[1])) \div Res

\* Mutant of check_rate_limit: the owner and the admins are limited too.
check_rate_limit_no_bypass(st, cfg, user_id, action, t) ==
    LET s1 == ensure_user(st, user_id, t)
        key == limits_config[action].key
        window == Sec(limits_config[action].window_seconds)
        timestamps == prune(s1[user_id].rate_limits[key], window, t)
    IN  IF at_ceiling(timestamps, limits_config[action].max_requests)
        THEN [st |-> s1, allowed |-> FALSE, wait |-> wait_time(timestamps, window, t)]
        ELSE [st |-> [s1 EXCEPT ![user_id].rate_limits[key] = Append(timestamps, t)],
              allowed |-> TRUE, wait |-> NoTime]

\* Answers [st: the stored state afterwards, allowed, wait: seconds or NoTime].
check_rate_limit(st, cfg, user_id, action, t) ==
    IF is_privileged(cfg, user_id)
    THEN [st |-> st, allowed |-> TRUE, wait |-> NoTime]
    ELSE LET s1 == ensure_user(st, user_id, t)
         IN  IF action \notin DOMAIN limits_config
             THEN [st |-> s1, allowed |-> TRUE, wait |-> NoTime]
             ELSE LET key == limits_config[action].key
                      window == Sec(limits_config[action].window_seconds)
                      max_requests == limits_config[action].max_requests
                      timestamps == prune(s1[user_id].rate_limits[key], window, t)
                  IN  IF at_ceiling(timestamps, max_requests)
                      THEN [st |-> s1, allowed |-> FALSE,
                            wait |-> wait_time(timestamps, window, t)]
                      ELSE [st |-> [s1 EXCEPT ![user_id].rate_limits[key] =
                                                  Append(timestamps, t)],
                            allowed |-> TRUE, wait |-> NoTime]

-----------------------------------------------------------------------------
(* Subscription management *)

get_subscription(st, user_id, t) ==
    LET s1 == ensure_user(st, user_id, t)
    IN  [st |-> s1, sub |-> s1[user_id].subscription]

\* Mutant of downgrade_to_free: the cut keeps the feeds added last.
downgrade_to_free_keep_latest(st, cfg, user_id, t) ==
    IF is_privileged(cfg, user_id)
    THEN st
    ELSE LET s1 == ensure_user(st, user_id, t)
             s2 == [s1 EXCEPT ![user_id].subscription.tier = "free",
                              ![user_id].subscription.expires_at = NoTime,
                              ![user_id].subscription.stripe_subscription_id = NoSubRef]
             max_feeds == TIERS.free.max_feeds
             n == Len(s2[user_id].feeds)
         IN  IF n > max_feeds
             THEN [s2 EXCEPT ![user_id].feeds = SubSeq(@, n - max_feeds + 1, n)]
             ELSE s2

\* Mutant of downgrade_to_free: the owner and the admins are downgraded too.
downgrade_to_free_everyone(st, cfg, user_id, t) ==
    LET s1 == ensure_user(st, user_id, t)
        s2 == [s1 EXCEPT ![user_id].subscription.tier = "free",
                         ![user_id].subscription.expires_at = NoTime,
                         ![user_id].subscription.stripe_subscription_id = NoSubRef]
    IN  [s2 EXCEPT ![user_id].feeds = Take(@, TIERS.free.max_feeds)]

downgrade_to_free(st, cfg, user_id, t) ==
    IF is_privileged(cfg, user_id)
    THEN st
    ELSE LET s1 == ensure_user(st, user_id, t)
             s2 == [s1 EXCEPT ![user_id].subscription.tier = "free",
                              ![user_id].subscription.expires_at = NoTime,
                              ![user_id].subscription.stripe_subscription_id = NoSubRef]
             max_feeds == TIERS.free.max_feeds
         IN  IF Len(s2[user_id].feeds) > max_feeds
             THEN [s2 EXCEPT ![user_id].feeds = Take(@, max_feeds)]
             ELSE s2

\* expires_at and tier != "free" and now > expiry
lapsed(sub, t) ==
    /\ sub.expires_at # NoTime
    /\ sub.tier # "free"
    /\ t > sub.expires_at

\* Mutant of get_tier_limits: the lapse is answered but never written back.
get_tier_limits_no_write(st, cfg, user_id, t) ==
    IF is_privileged(cfg, user_id)
    THEN [st |-> st, limits |-> TIERS.pro]
    ELSE LET g == get_subscription(st, user_id, t)
         IN  IF lapsed(g.sub, t)
             THEN [st |-> g.st, limits |-> TIERS.free]
             ELSE [st |-> g.st,
                   limits |-> IF g.sub.tier \in DOMAIN TIERS
                              THEN TIERS[g.sub.tier] ELSE TIERS.free]

\* Answers [st: the stored state afterwards, limits: the tier definition].
get_tier_limits(st, cfg, user_id, t) ==
    IF is_privileged(cfg, user_id)
    THEN [st |-> st, limits |-> TIERS.pro]
    ELSE LET g == get_subscription(st, user_id, t)
         IN  IF lapsed(g.sub, t)
             THEN [st |-> downgrade_to_free(g.st, cfg, user_id, t),
                   limits |-> TIERS.free]
             ELSE [st |-> g.st,
                   limits |-> IF g.sub.tier \in DOMAIN TIERS
                              THEN TIERS[g.sub.tier] ELSE TIERS.free]

\* Mutant of is_subscription_active: only the owner is always entitled.
is_subscription_active_owner_only(st, cfg, user_id, t) ==
    IF is_owner(cfg, user_id)
    THEN [st |-> st, active |-> TRUE]
    ELSE LET g == get_subscription(st, user_id, t)
         IN  [st |-> g.st,
              active |-> IF g.sub.tier = "free" THEN TRUE
                         ELSE IF g.sub.expires_at = NoTime THEN FALSE
                         ELSE t < g.sub.expires_at]

\* Answers [st, active].  Nothing is written beyond ensure_user.
is_subscription_active(st, cfg, user_id, t) ==
    IF is_privileged(cfg, user_id)
    THEN [st |-> st, active |-> TRUE]
    ELSE LET g == get_subscription(st, user_id, t)
         IN  [st |-> g.st,
              active |-> IF g.sub.tier = "free" THEN TRUE
                         ELSE IF g.sub.expires_at = NoTime THEN FALSE
                         ELSE t < g.sub.expires_at]

\* Mutant of upgrade_subscription: created_at is stamped anew.
upgrade_subscription_restamp(st, user_id, tier, stripe_customer_id, stripe_subscription_id, expires_at, t) ==
    IF tier \notin DOMAIN TIERS
    THEN [st |-> st, ok |-> FALSE]
    ELSE [st |-> [ensure_user(st, user_id, t) EXCEPT ![user_id].subscription =
                     [tier |-> tier,
                      stripe_customer_id |-> stripe_customer_id,
                      stripe_subscription_id |-> stripe_subscription_id,
                      expires_at |-> expires_at,
                      created_at |-> t]],
          ok |-> TRUE]

\* Answers [st, ok].  created_at of the stored subscription is kept.
upgrade_subscription(st, user_id, tier, stripe_customer_id, stripe_subscription_id, expires_at, t) ==
    IF tier \notin DOMAIN TIERS
    THEN [st |-> st, ok |-> FALSE]
    ELSE LET s1 == ensure_user(st, user_id, t)
         IN  [st |-> [s1 EXCEPT ![user_id].subscription =
                         [tier |-> tier,
                          stripe_customer_id |-> stripe_customer_id,
                          stripe_subscription_id |-> stripe_subscription_id,
                          expires_at |-> expires_at,
                          created_at |-> s1[user_id].subscription.created_at]],
              ok |-> TRUE]

-----------------------------------------------------------------------------
(* Feed URLs: [scheme, host, path], the stored form being the normalized one *)

HostNames == <<"a.substack.com", "b.substack.com", "c.medium.com",
               "d.example.org", "e.ghost.io", "f.example.net">>
Hosts == {HostNames[i] : i \in 1..NumHosts}

Url(scheme, host, path) == [scheme |-> scheme, host |-> host, path |-> path]

\* What a user may type: every host over https without a path, the first host
\* also over http with its feed path, a scheme and a host that are refused.
Urls ==
    {Url("https", h, "") : h \in Hosts}
        \cup {Url("http", HostNames[1], "/feed"), Url("http", HostNames[4], "/"),
              Url("ftp", HostNames[1], "/feed"), Url("http", "localhost", "/feed")}

is_substack(host) == host \in {"a.substack.com", "b.substack.com"}

is_known_platform(host) ==
    is_substack(host) \/ host \in {"c.medium.com", "e.ghost.io"}

\* Answers [valid, result]: the normalized URL, or the text of the refusal.
validate_feed_url(url) ==
    IF url.scheme \notin {"http", "https"}
    THEN [valid |-> FALSE, result |-> "Invalid URL format."]
    ELSE IF url.host = "localhost"
    THEN [valid |-> FALSE, result |-> "URL not allowed for security reasons."]
    ELSE LET u1 == IF is_substack(url.host) /\ url.path # "/feed"
                   THEN [url EXCEPT !.path = "/feed"] ELSE url
             u2 == IF is_known_platform(u1.host) /\ u1.scheme = "http"
                   THEN [u1 EXCEPT !.scheme = "https"] ELSE u1
         IN  [valid |-> TRUE, result |-> u2]

-----------------------------------------------------------------------------
(* Feed management *)

list_feeds(st, user_id, t) ==
    LET s1 == ensure_user(st, user_id, t)
    IN  [st |-> s1, feeds |-> s1[user_id].feeds]

\* Mutant of add_feed: a URL that is in the list already is appended again.
add_feed_again(st, cfg, user_id, url, t) ==
    LET rl == IF is_privileged(cfg, user_id)
              THEN [st |-> st, allowed |-> TRUE, wait |-> NoTime]
              ELSE check_rate_limit(st, cfg, user_id, "feed_add", t)
        v == validate_feed_url(url)
        copy == ensure_user(rl.st, user_id, t)
        g == get_tier_limits(copy, cfg, user_id, t)
        max_feeds == g.limits.max_feeds
        tier == get_subscription(g.st, user_id, t).sub.tier
    IN  IF ~rl.allowed
        THEN [st |-> rl.st, ok |-> FALSE, msg |-> "Rate limit exceeded."]
        ELSE IF ~v.valid
        THEN [st |-> rl.st, ok |-> FALSE, msg |-> v.result]
        ELSE IF Len(copy[user_id].feeds) >= max_feeds
        THEN [st |-> g.st, ok |-> FALSE,
              msg |-> IF tier = "free" /\ ~is_privileged(cfg, user_id)
                      THEN "Feed limit reached (free tier)."
                      ELSE "Feed limit reached."]
        ELSE [st |-> [copy EXCEPT ![user_id].feeds = Append(@, v.result)],
              ok |-> TRUE, msg |-> "added"]

\* Mutant of add_feed: the quota test lets one feed more through.
add_feed_one_more(st, cfg, user_id, url, t) ==
    LET rl == IF is_privileged(cfg, user_id)
              THEN [st |-> st, allowed |-> TRUE, wait |-> NoTime]
              ELSE check_rate_limit(st, cfg, user_id, "feed_add", t)
        v == validate_feed_url(url)
        copy == ensure_user(rl.st, user_id, t)
        g == get_tier_limits(copy, cfg, user_id, t)
        max_feeds == g.limits.max_feeds
        tier == get_subscription(g.st, user_id, t).sub.tier
    IN  IF ~rl.allowed
        THEN [st |-> rl.st, ok |-> FALSE, msg |-> "Rate limit exceeded."]
        ELSE IF ~v.valid
        THEN [st |-> rl.st, ok |-> FALSE, msg |-> v.result]
        ELSE IF Len(copy[user_id].feeds) > max_feeds
        THEN [st |-> g.st, ok |-> FALSE,
              msg |-> IF tier = "free" /\ ~is_privileged(cfg, user_id)
                      THEN "Feed limit reached (free tier)."
                      ELSE "Feed limit reached."]
        ELSE IF v.result \in SeqToSet(copy[user_id].feeds)
        THEN [st |-> g.st, ok |-> FALSE, msg |-> "Feed already added."]
        ELSE [st |-> [copy EXCEPT ![user_id].feeds = Append(@, v.result)],
              ok |-> TRUE, msg |-> "added"]

\* Answers [st, ok, msg].  The account is read before get_tier_limits runs and
\* that copy, with the feed appended, is what the last save writes.
add_feed(st, cfg, user_id, url, t) ==
    LET rl == IF is_privileged(cfg, user_id)
              THEN [st |-> st, allowed |-> TRUE, wait |-> NoTime]
              ELSE check_rate_limit(st, cfg, user_id, "feed_add", t)
        v == validate_feed_url(url)
        copy == ensure_user(rl.st, user_id, t)
        g == get_tier_limits(copy, cfg, user_id, t)
        max_feeds == g.limits.max_feeds
        tier == get_subscription(g.st, user_id, t).sub.tier
    IN  IF ~rl.allowed
        THEN [st |-> rl.st, ok |-> FALSE, msg |-> "Rate limit exceeded."]
        ELSE IF ~v.valid
        THEN [st |-> rl.st, ok |-> FALSE, msg |-> v.result]
        ELSE IF Len(copy[user_id].feeds) >= max_feeds
        THEN [st |-> g.st, ok |-> FALSE,
              msg |-> IF tier = "free" /\ ~is_privileged(cfg, user_id)
                      THEN "Feed limit reached (free tier)."
                      ELSE "Feed limit reached."]
        ELSE IF v.result \in SeqToSet(copy[user_id].feeds)
        THEN [st |-> g.st, ok |-> FALSE, msg |-> "Feed already added."]
        ELSE [st |-> [copy EXCEPT ![user_id].feeds = Append(@, v.result)],
              ok |-> TRUE, msg |-> "added"]

\* url_or_index is [index: a number typed in digits] or [url: any other text].
remove_feed(st, user_id, url_or_index, t) ==
    LET s1 == ensure_user(st, user_id, t)
        feeds == s1[user_id].feeds
    IN  IF "index" \in DOMAIN url_or_index
        THEN LET idx == url_or_index.index - 1
             IN  IF 0 <= idx /\ idx < Len(feeds)
                 THEN [st |-> [s1 EXCEPT ![user_id].feeds = RemoveAt(feeds, idx + 1)],
                       ok |-> TRUE, msg |-> "removed"]
                 ELSE [st |-> s1, ok |-> FALSE, msg |-> "Invalid index."]
        ELSE IF url_or_index.url \in SeqToSet(feeds)
        THEN LET i == CHOOSE j \in 1..Len(feeds) :
                        /\ feeds[j] = url_or_index.url
                        /\ \A k \in 1..(j - 1) : feeds[k] # url_or_index.url
             IN  [st |-> [s1 EXCEPT ![user_id].feeds = RemoveAt(feeds, i)],
                  ok |-> TRUE, msg |-> "removed"]
        ELSE [st |-> s1, ok |-> FALSE, msg |-> "Feed not found."]

-----------------------------------------------------------------------------
(* Payment-processor events (stripe_webhook.py).  An event is the record of  *)
(* the fields the handlers read; a field the payload lacks is None / NoTime. *)

StripeRef(ref) == [kind |-> "stripe", ref |-> ref]

\* Answers [st, ok, notified: the identity told about it, or None].
handle_checkout_completed(st, event, t) ==
    IF \/ event.telegram_user_id = None
       \/ event.tier = None
       \/ event.subscription = None
    THEN [st |-> st, ok |-> FALSE, notified |-> None]
    ELSE LET expires_at == t + Days(CHECKOUT_PERIOD_DAYS)
             up == upgrade_subscription(st, event.telegram_user_id, event.tier,
                                        event.customer, StripeRef(event.subscription),
                                        expires_at, t)
         IN  [st |-> up.st, ok |-> up.ok,
              notified |-> IF up.ok THEN event.telegram_user_id ELSE None]

\* A payload without a tier is read as tier "basic".
handle_subscription_updated(st, event, t) ==
    LET tier == IF event.tier = None THEN "basic" ELSE event.tier
    IN  IF event.telegram_user_id = None
        THEN [st |-> st, ok |-> FALSE, notified |-> None]
        ELSE IF event.status = "active"
        THEN LET expires_at == IF event.current_period_end # NoTime
                               THEN event.current_period_end
                               ELSE t + Days(CHECKOUT_PERIOD_DAYS)
                 up == upgrade_subscription(st, event.telegram_user_id, tier,
                                            event.customer, StripeRef(event.subscription),
                                            expires_at, t)
             IN  [st |-> up.st, ok |-> up.ok, notified |-> None]
        ELSE [st |-> st, ok |-> TRUE, notified |-> None]

handle_subscription_deleted(st, cfg, event, t) ==
    IF event.telegram_user_id = None
    THEN [st |-> st, ok |-> FALSE, notified |-> None]
    ELSE [st |-> downgrade_to_free(st, cfg, event.telegram_user_id, t),
          ok |-> TRUE, notified |-> event.telegram_user_id]

\* The accounts whose stored customer reference equals the event's; the scan
\* stops at the first of them in the file's order.
payment_failed_matches(st, event) ==
    {u \in DOMAIN st : st[u].subscription.stripe_customer_id = event.customer}

\* Mutant of handle_payment_failed: the account found is moved to the free tier.
handle_payment_failed_downgrades(st, event) ==
    [st |-> [u \in DOMAIN st |->
                IF u \in payment_failed_matches(st, event)
                THEN [st[u] EXCEPT !.subscription.tier = "free"]
                ELSE st[u]],
     ok |-> TRUE, notified |-> payment_failed_matches(st, event)]

\* Answers [st, ok, notified: the accounts the scan may stop at].  The store
\* is loaded and never saved.
handle_payment_failed(st, event) ==
    [st |-> st, ok |-> TRUE, notified |-> payment_failed_matches(st, event)]

-----------------------------------------------------------------------------
(* Webhook ingestion (stripe_webhook.py).  A text of the signature header is *)
(* [kind, body]: the decimal text of an integer, a hex digest, a word, the   *)
(* empty text.  The header is the list of its comma-separated items, an item *)
(* the list of its "="-separated parts.  A request body is [utf8: whether    *)
(* the bytes decode, doc: the document they spell].                          *)

SIGNATURE_TOLERANCE == 300

Text(kind, body) == [kind |-> kind, body |-> body]

Missing == Text("none", <<>>)

\* str(n)
Stamp(n) == Text("int", <<n>>)

\* Python's "not x" on what sig_parts.get answers
falsy(text) == text.kind \in {"none", "empty"}

Abs(n) == IF n < 0 THEN 0 - n ELSE n

\* hmac.new(secret, signed_payload, sha256).hexdigest(): one digest per
\* (key, message), no two alike.
hexdigest(secret, signed_payload) == Text("hex", <<secret, signed_payload>>)

\* f"{timestamp}.{payload.decode('utf-8')}"
signed_payload(timestamp, payload) == <<timestamp, ".", payload.doc>>

compare_digest(a, b) == a.kind = b.kind /\ a = b

\* dict(item.split("=") for item in signature.split(",")) raises unless every
\* item has exactly two parts.
splits_in_pairs(signature) == \A i \in DOMAIN signature : Len(signature[i]) = 2

\* The dict: a key that comes twice keeps its last value.
sig_parts(signature) ==
    LET last(k) == CHOOSE i \in DOMAIN signature :
                       /\ signature[i][1] = k
                       /\ \A j \in DOMAIN signature : signature[j][1] = k => j <= i
    IN  [k \in {signature[i][1] : i \in DOMAIN signature} |-> signature[last(k)][2]]

get(parts, key) == IF key \in DOMAIN parts THEN parts[key] ELSE Missing

\* Mutant of verify_webhook_signature: only an old timestamp is refused.
verify_webhook_signature_no_abs(secret, payload, signature, t) ==
    IF secret = None \/ ~splits_in_pairs(signature)
    THEN FALSE
    ELSE LET timestamp == get(sig_parts(signature), "t")
             v1_signature == get(sig_parts(signature), "v1")
         IN  IF falsy(timestamp) \/ falsy(v1_signature) THEN FALSE
             ELSE IF timestamp.kind # "int" THEN FALSE
             ELSE IF t - Sec(timestamp.body[1]) > Sec(SIGNATURE_TOLERANCE) THEN FALSE
             ELSE IF ~payload.utf8 THEN FALSE
             ELSE compare_digest(hexdigest(secret, signed_payload(timestamp, payload)),
                                 v1_signature)

\* secret is STRIPE_WEBHOOK_SECRET, None when the environment sets none.  Every
\* exception inside the try block answers False: a header that does not split
\* in pairs, a timestamp int() refuses, a body that does not decode.
verify_webhook_signature(secret, payload, signature, t) ==
    IF secret = None \/ ~splits_in_pairs(signature)
    THEN FALSE
    ELSE LET timestamp == get(sig_parts(signature), "t")
             v1_signature == get(sig_parts(signature), "v1")
         IN  IF falsy(timestamp) \/ falsy(v1_signature) THEN FALSE
             ELSE IF timestamp.kind # "int" THEN FALSE
             ELSE IF Abs(t - Sec(timestamp.body[1])) > Sec(SIGNATURE_TOLERANCE) THEN FALSE
             ELSE IF ~payload.utf8 THEN FALSE
             ELSE compare_digest(hexdigest(secret, signed_payload(timestamp, payload)),
                                 v1_signature)

\* A document: [kind |-> "object", type, object] for a JSON object, the fields
\* of data.object being the record the handlers read; "array" for JSON that is
\* not an object; "garbage" for text json.loads refuses.
Event(type, object) == [kind |-> "object", type |-> type, object |-> object]

\* Answers [st, ok].
process_webhook_event(st, cfg, event, t) ==
    CASE event.type = "checkout.session.completed" ->
            [st |-> handle_checkout_completed(st, event.object, t).st,
             ok |-> handle_checkout_completed(st, event.object, t).ok]
      [] event.type = "customer.subscription.updated" ->
            [st |-> handle_subscription_updated(st, event.object, t).st,
             ok |-> handle_subscription_updated(st, event.object, t).ok]
      [] event.type = "customer.subscription.deleted" ->
            [st |-> handle_subscription_deleted(st, cfg, event.object, t).st,
             ok |-> handle_subscription_deleted(st, cfg, event.object, t).ok]
      [] event.type = "invoice.payment_failed" ->
            [st |-> handle_payment_failed(st, event.object).st,
             ok |-> handle_payment_failed(st, event.object).ok]
      [] OTHER -> [st |-> st, ok |-> TRUE]

\* The handler raised: it answered no status of its own.
Unhandled == 0

\* What both entry points do once the signature has verified.  on_error is
\* the status when process_webhook_event raises on a document without .get.
ingest(st, cfg, payload, t, on_error) ==
    IF payload.doc.kind = "garbage"
    THEN [st |-> st, status |-> 400, processed |-> FALSE]
    ELSE IF payload.doc.kind # "object"
    THEN [st |-> st, status |-> on_error, processed |-> TRUE]
    ELSE LET r == process_webhook_event(st, cfg, payload.doc, t)
         IN  [st |-> r.st, status |-> IF r.ok THEN 200 ELSE 500, processed |-> TRUE]

\* Mutant of stripe_webhook: the body is parsed and routed unverified.
stripe_webhook_unverified(st, cfg, secret, payload, signature, t) ==
    ingest(st, cfg, payload, t, 500)

\* The Flask route.  Answers [st, status, processed: whether
\* process_webhook_event was called].
stripe_webhook(st, cfg, secret, payload, signature, t) ==
    IF ~verify_webhook_signature(secret, payload, signature, t)
    THEN [st |-> st, status |-> 400, processed |-> FALSE]
    ELSE ingest(st, cfg, payload, t, 500)

\* The Lambda entry point: an exception other than JSONDecodeError leaves it.
lambda_handler(st, cfg, secret, payload, signature, t) ==
    IF ~verify_webhook_signature(secret, payload, signature, t)
    THEN [st |-> st, status |-> 400, processed |-> FALSE]
    ELSE ingest(st, cfg, payload, t, Unhandled)

-----------------------------------------------------------------------------
(* Scheduled delivery.  A calendar date is its day number, a time of day    *)
(* [hour, minute].                                                           *)

get_all_users(st) ==
    SelectSeq(UserIds, LAMBDA u : u \in DOMAIN st)

get_digest_time(st, user_id, t) ==
    LET s1 == ensure_user(st, user_id, t)
    IN  [st |-> s1, time |-> s1[user_id].digest_time]

get_last_sent_date(st, user_id, t) ==
    LET s1 == ensure_user(st, user_id, t)
    IN  [st |-> s1, date |-> s1[user_id].last_sent_date]

set_last_sent_date(st, user_id, date_str, t) ==
    [ensure_user(st, user_id, t) EXCEPT ![user_id].last_sent_date = date_str]

\* now.strftime("%Y-%m-%d"), now.hour, now.minute
Today(t) == t \div Days(1)
Hour(t) == (t % Days(1)) \div Sec(3600)
Minute(t) == (t % Sec(3600)) \div Sec(60)

\* map(int, user_time.split(':')) on the times of the model; 8, 0 when it raises.
split_time(user_time) ==
    CASE user_time = "08:00" -> [hour |-> 8, minute |-> 0]
      [] user_time = "20:30" -> [hour |-> 20, minute |-> 30]
      [] OTHER -> [hour |-> 8, minute |-> 0]

\* The tests of one pass of the loop of send_scheduled_digests, for a run that
\* started at time started: whether the pass goes on to build and send.
is_due(st, user_id, started, t) ==
    LET last_sent == get_last_sent_date(st, user_id, t).date
        user == split_time(get_digest_time(st, user_id, t).time)
    IN  /\ last_sent # Today(started)
        /\ Hour(started) = user.hour
        /\ Abs(Minute(started) - user.minute) <= 30
        /\ list_feeds(st, user_id, t).feeds # <<>>

-----------------------------------------------------------------------------
(* Analytics *)

\* The handle a payment is recorded under: what get_username_by_user_id
\* answers, null when the directory has no entry of the identity.
known_as(map, user_id) ==
    {get_username_by_user_id(map, user_id)}

\* username is what get_username_by_user_id answered.
record_payment(an, user_id, username, amount, payment_id, t) ==
    [an EXCEPT !.payments = Append(@, [user_id |-> user_id,
                                       username |-> username,
                                       amount |-> amount,
                                       currency |-> "XTR",
                                       payment_id |-> payment_id,
                                       timestamp |-> t])]

record_event(an, event_type, user_id, details, t) ==
    [an EXCEPT !.events = Append(@, [type |-> event_type,
                                     user_id |-> user_id,
                                     details |-> details,
                                     timestamp |-> t])]

-----------------------------------------------------------------------------
(* Preferences *)

\* ^([01]?[0-9]|2[0-3]):[0-5][0-9]$ on the texts of the model
is_time(time_str) == time_str \in {"8:00", "08:00", "18:30"}

\* f"{int(parts[0]):02d}:{parts[1]}"
pad_time(time_str) == IF time_str = "8:00" THEN "08:00" ELSE time_str

\* Answers [st, ok].
set_digest_time(st, user_id, time_str, t) ==
    IF ~is_time(time_str)
    THEN [st |-> st, ok |-> FALSE]
    ELSE [st |-> [ensure_user(st, user_id, t) EXCEPT ![user_id].digest_time = time_str],
          ok |-> TRUE]

valid_formats == {"scqr", "tldr", "bullets", "eli5", "actionable", "custom"}

\* Answers [st, ok].
set_summary_format(st, user_id, format_type, t) ==
    IF format_type \notin valid_formats
    THEN [st |-> st, ok |-> FALSE]
    ELSE [st |-> [ensure_user(st, user_id, t) EXCEPT
                      ![user_id].summary_format = format_type],
          ok |-> TRUE]

set_custom_prompt(st, user_id, prompt, t) ==
    [ensure_user(st, user_id, t) EXCEPT ![user_id].custom_prompt = prompt,
                                        ![user_id].summary_format = "custom"]

clear_custom_prompt(st, user_id, t) ==
    [ensure_user(st, user_id, t) EXCEPT ![user_id].custom_prompt = None,
                                        ![user_id].summary_format = "scqr"]

\* A prompt is [size: "short" | "fit" | "long", content: it names {content},
\* json: it asks for JSON]; the two suffixes are appended when missing.
Prompt(size, content, json) == [size |-> size, content |-> content, json |-> json]

\* Answers [valid, result]: the completed prompt, or the text of the refusal.
validate_custom_prompt(prompt) ==
    IF prompt.size = "short"
    THEN [valid |-> FALSE, result |-> "Prompt is too short."]
    ELSE IF prompt.size = "long"
    THEN [valid |-> FALSE, result |-> "Prompt is too long."]
    ELSE [valid |-> TRUE, result |-> [prompt EXCEPT !.content = TRUE, !.json = TRUE]]

-----------------------------------------------------------------------------
(* Statistics *)

\* Answers [st, stats].  The account is read before get_tier_limits runs, so
\* tier, feed_count and expires_at are the values from before a lazy expiry.
get_user_stats(st, cfg, user_id, t) ==
    LET s1 == ensure_user(st, user_id, t)
        user == s1[user_id]
        g == get_tier_limits(s1, cfg, user_id, t)
        a == is_subscription_active(g.st, cfg, user_id, t)
    IN  [st |-> a.st,
         stats |-> [feed_count |-> Len(user.feeds),
                    tier |-> user.subscription.tier,
                    is_owner |-> is_owner(cfg, user_id),
                    is_admin |-> is_admin(cfg, user_id),
                    is_privileged |-> is_privileged(cfg, user_id),
                    tier_limits |-> g.limits,
                    subscription_active |-> a.active,
                    expires_at |-> user.subscription.expires_at]]

-----------------------------------------------------------------------------
(* Chat handlers (substack_to_telegram.py).  A world is the four files; a   *)
(* handler answers [w: the world afterwards, reply: the last message sent   *)
(* to the sender's chat].                                                   *)

World(cfg, st, map, an) ==
    [config |-> cfg, state |-> st, username_map |-> map, analytics |-> an]

Reply(icon, text) == [icon |-> icon, text |-> text]
NoReply == Reply("none", None)

\* A command without arguments.
NoArgs == [empty |-> TRUE]

handle_start(w, user_id, t) ==
    [w |-> [w EXCEPT !.state = ensure_user(w.state, user_id, t)],
     reply |-> Reply("info", IF is_owner(w.config, user_id) THEN "Welcome, owner"
                             ELSE IF is_admin(w.config, user_id) THEN "Welcome, Pro access"
                             ELSE "Welcome")]

handle_help(w, user_id, t) ==
    LET s1 == ensure_user(w.state, user_id, t)
        g == get_tier_limits(s1, w.config, user_id, t)
    IN  [w |-> [w EXCEPT !.state = g.st],
         reply |-> Reply("info", IF g.limits.ai_summaries
                                 THEN "Commands with /format" ELSE "Commands")]

\* The feeds shown are the ones read before get_tier_limits ran.
handle_feedlist(w, user_id, t) ==
    LET l == list_feeds(w.state, user_id, t)
        g == get_tier_limits(l.st, w.config, user_id, t)
        s == get_user_stats(g.st, w.config, user_id, t)
    IN  [w |-> [w EXCEPT !.state = s.st],
         reply |-> Reply("info", IF l.feeds = <<>> THEN "No feeds yet" ELSE "Your Feeds")]

\* args is NoArgs or [url: what was typed].
handle_addfeed(w, user_id, args, t) ==
    IF "url" \notin DOMAIN args
    THEN [w |-> w, reply |-> Reply("info", "Usage: /addfeed")]
    ELSE LET r == add_feed(w.state, w.config, user_id, args.url, t)
         IN  [w |-> [w EXCEPT !.state = r.st],
              reply |-> Reply(IF r.ok THEN "ok" ELSE "warn", r.msg)]

\* args is NoArgs, [index: a number] or [url: any other text].
handle_removefeed(w, user_id, args, t) ==
    IF args = NoArgs
    THEN [w |-> w, reply |-> Reply("info", "Usage: /removefeed")]
    ELSE LET r == remove_feed(w.state, user_id, args, t)
         IN  [w |-> [w EXCEPT !.state = r.st],
              reply |-> Reply(IF r.ok THEN "ok" ELSE "warn", r.msg)]

\* entries: whether the feeds fetched hold a post of the last 24 hours.
handle_digest(w, user_id, entries, t) ==
    LET rl == check_rate_limit(w.state, w.config, user_id, "digest_request", t)
        l == list_feeds(rl.st, user_id, t)
        g == get_tier_limits(l.st, w.config, user_id, t)
    IN  IF ~rl.allowed
        THEN [w |-> [w EXCEPT !.state = rl.st], reply |-> Reply("warn", "Rate limit exceeded.")]
        ELSE IF l.feeds = <<>>
        THEN [w |-> [w EXCEPT !.state = l.st], reply |-> Reply("info", "No feeds yet")]
        ELSE IF ~entries
        THEN [w |-> [w EXCEPT !.state = l.st], reply |-> Reply("info", "No new posts")]
        ELSE [w |-> [w EXCEPT !.state = g.st], reply |-> Reply("info", "Daily Digest")]

tier_display(stats) ==
    IF stats.is_owner THEN "Owner"
    ELSE IF stats.is_admin THEN "Admin (Pro)"
    ELSE IF stats.tier = "pro"
    THEN IF stats.subscription_active THEN "Pro" ELSE "Pro (Expired)"
    ELSE "Free"

handle_status(w, user_id, t) ==
    LET s == get_user_stats(w.state, w.config, user_id, t)
    IN  [w |-> [w EXCEPT !.state = s.st], reply |-> Reply("info", tier_display(s.stats))]

handle_upgrade(w, user_id, t) ==
    LET s == get_user_stats(w.state, w.config, user_id, t)
    IN  [w |-> [w EXCEPT !.state = s.st],
         reply |-> IF s.stats.is_owner THEN Reply("info", "You're the owner")
                   ELSE IF s.stats.is_admin THEN Reply("info", "You're an admin")
                   ELSE IF s.stats.tier = "pro" /\ s.stats.subscription_active
                   THEN Reply("info", "You're already on Pro")
                   ELSE Reply("invoice", "Upgrade to Pro")]

\* args is NoArgs or [time: what was typed].
handle_settime(w, user_id, args, t) ==
    IF args = NoArgs
    THEN [w |-> [w EXCEPT !.state = ensure_user(w.state, user_id, t)],
          reply |-> Reply("info", "Digest Delivery Time")]
    ELSE IF ~is_time(args.time)
    THEN [w |-> w, reply |-> Reply("warn", "Invalid time format.")]
    ELSE LET r == set_digest_time(w.state, user_id, pad_time(args.time), t)
         IN  [w |-> [w EXCEPT !.state = r.st],
              reply |-> IF r.ok THEN Reply("ok", "Digest time set")
                        ELSE Reply("warn", "Failed to set time.")]

\* args is NoArgs, [subcommand] or [subcommand: "custom", prompt].
handle_format(w, user_id, args, t) ==
    LET g == get_tier_limits(w.state, w.config, user_id, t)
        w1 == [w EXCEPT !.state = g.st]
        v == validate_custom_prompt(args.prompt)
    IN  IF ~g.limits.ai_summaries
        THEN [w |-> w1, reply |-> Reply("warn", "Summary formats are a Pro feature.")]
        ELSE IF args = NoArgs
        THEN [w |-> [w1 EXCEPT !.state = ensure_user(g.st, user_id, t)],
              reply |-> Reply("info", "Summary Format Settings")]
        ELSE IF args.subcommand = "reset"
        THEN [w |-> [w1 EXCEPT !.state = clear_custom_prompt(g.st, user_id, t)],
              reply |-> Reply("ok", "Reset to default SCQR format.")]
        ELSE IF args.subcommand = "custom"
        THEN IF "prompt" \notin DOMAIN args
             THEN [w |-> w1, reply |-> Reply("info", "Usage: /format custom")]
             ELSE IF ~v.valid
             THEN [w |-> w1, reply |-> Reply("warn", v.result)]
             ELSE [w |-> [w1 EXCEPT !.state = set_custom_prompt(g.st, user_id, v.result, t)],
                   reply |-> Reply("ok", "Custom format saved")]
        ELSE IF args.subcommand \in valid_formats \ {"custom"}
        THEN [w |-> [w1 EXCEPT !.state =
                         set_summary_format(g.st, user_id, args.subcommand, t).st],
              reply |-> Reply("ok", "Format set")]
        ELSE [w |-> w1, reply |-> Reply("warn", "Unknown format")]

-----------------------------------------------------------------------------
(* Owner commands *)

\* url.strip().startswith('http')
starts_with_http(url) == url.scheme \in {"http", "https"}

\* Duplicates dropped, the order of first appearance kept.
RECURSIVE unique_urls(_)
unique_urls(urls) ==
    IF urls = <<>> THEN <<>>
    ELSE LET front == unique_urls(SubSeq(urls, 1, Len(urls) - 1))
             last == urls[Len(urls)]
         IN  IF last \in SeqToSet(front) THEN front ELSE Append(front, last)

\* The loop of bulkadd: add_feed on each URL in turn.  Answers [st, added].
RECURSIVE bulk_add(_, _, _, _, _)
bulk_add(st, cfg, user_id, feed_urls, t) ==
    IF feed_urls = <<>>
    THEN [st |-> st, added |-> 0]
    ELSE LET r == add_feed(st, cfg, user_id, Head(feed_urls), t)
             rest == bulk_add(r.st, cfg, user_id, Tail(feed_urls), t)
         IN  [st |-> rest.st, added |-> rest.added + (IF r.ok THEN 1 ELSE 0)]

OwnerGrantRef(user_id) == [kind |-> "owner_grant", ref |-> user_id]

\* args is NoArgs or [subcommand, ...] with the fields the subcommand reads:
\* target ([username] or [user_id]), reason, days ([n] or [text]), urls, message.
handle_owner(w, user_id, args, t) ==
    LET has(f) == f \in DOMAIN args
        target_id == resolve(w.username_map, args.target)
        feed_urls == unique_urls(SelectSeq(args.urls, starts_with_http))
        reason == IF has("reason") THEN args.reason ELSE "Blocked by owner"
    IN  IF ~is_owner(w.config, user_id)
        THEN [w |-> w, reply |-> Reply("warn", "This command is for the owner only.")]
        ELSE IF args = NoArgs
        THEN [w |-> w, reply |-> Reply("info", "Owner Commands")]
        ELSE IF args.subcommand \in {"stats", "testpayment", "listadmins", "users", "payments"}
        THEN [w |-> w, reply |-> Reply("info", args.subcommand)]
        ELSE IF args.subcommand = "addadmin"
        THEN IF ~has("target")
             THEN [w |-> w, reply |-> Reply("info", "Usage: /owner addadmin")]
             ELSE LET r == add_admin(w.config, w.username_map, args.target)
                  IN  [w |-> [w EXCEPT !.config = r.cfg],
                       reply |-> Reply(IF r.ok THEN "ok" ELSE "warn", r.msg)]
        ELSE IF args.subcommand = "removeadmin"
        THEN IF ~has("target")
             THEN [w |-> w, reply |-> Reply("info", "Usage: /owner removeadmin")]
             ELSE LET r == remove_admin(w.config, w.username_map, args.target)
                  IN  [w |-> [w EXCEPT !.config = r.cfg],
                       reply |-> Reply(IF r.ok THEN "ok" ELSE "warn", r.msg)]
        ELSE IF args.subcommand = "bulkadd"
        THEN IF ~has("urls")
             THEN [w |-> w, reply |-> Reply("info", "Usage: /owner bulkadd")]
             ELSE IF feed_urls = <<>>
             THEN [w |-> w, reply |-> Reply("warn", "No valid URLs found.")]
             ELSE [w |-> [w EXCEPT !.state =
                              bulk_add(w.state, w.config, user_id, feed_urls, t).st],
                   reply |-> Reply("info", "Bulk Add Results")]
        ELSE IF args.subcommand = "exportfeeds"
        THEN LET l == list_feeds(w.state, user_id, t)
             IN  [w |-> [w EXCEPT !.state = l.st],
                  reply |-> Reply("info", IF l.feeds = <<>> THEN "No feeds to export"
                                          ELSE "Your Feeds")]
        ELSE IF args.subcommand = "block"
        THEN IF ~has("target")
             THEN [w |-> w, reply |-> Reply("info", "Usage: /owner block")]
             ELSE IF target_id = None
             THEN [w |-> w, reply |-> Reply("warn", "User not found.")]
             ELSE [w |-> [w EXCEPT !.state = block_user(w.state, target_id, reason, t)],
                   reply |-> Reply("ok", "Blocked")]
        ELSE IF args.subcommand = "unblock"
        THEN IF ~has("target")
             THEN [w |-> w, reply |-> Reply("info", "Usage: /owner unblock")]
             ELSE IF target_id = None
             THEN [w |-> w, reply |-> Reply("warn", "User not found.")]
             ELSE [w |-> [w EXCEPT !.state = unblock_user(w.state, target_id, t)],
                   reply |-> Reply("ok", "Unblocked")]
        ELSE IF args.subcommand = "broadcast"
        THEN IF ~has("message")
             THEN [w |-> w, reply |-> Reply("info", "Usage: /owner broadcast")]
             ELSE [w |-> w, reply |-> Reply("ok", "Broadcast sent")]
        ELSE IF args.subcommand = "grant"
        THEN IF ~has("target") \/ ~has("days")
             THEN [w |-> w, reply |-> Reply("info", "Usage: /owner grant")]
             ELSE IF "n" \notin DOMAIN args.days
             THEN [w |-> w, reply |-> Reply("warn", "Days must be a number")]
             ELSE IF target_id = None
             THEN [w |-> w, reply |-> Reply("warn", "User not found.")]
             ELSE [w |-> [w EXCEPT !.state =
                              upgrade_subscription(w.state, target_id, "pro", None,
                                                   OwnerGrantRef(user_id),
                                                   t + Days(args.days.n), t).st],
                   reply |-> Reply("ok", "Granted Pro")]
        ELSE [w |-> w, reply |-> Reply("warn", "Unknown command. Use /owner for help.")]

-----------------------------------------------------------------------------
(* Payments in chat and the message router *)

TelegramStarsRef(payment_id) == [kind |-> "telegram_stars", ref |-> payment_id]

\* An invoice payload is a text: the prefix the handlers test and the rest.
Payload(prefix, rest) == [prefix |-> prefix, rest |-> rest]

\* payment is [invoice_payload, total_amount, telegram_payment_charge_id].
\* username is what the directory answers for the payer.
handle_successful_payment(w, user_id, payment, username, t) ==
    IF payment.invoice_payload = Payload("test_payment", "")
    THEN [w |-> w, reply |-> Reply("ok", "Test Payment Successful!")]
    ELSE IF payment.invoice_payload.prefix = "pro_subscription_"
    THEN LET a1 == record_payment(w.analytics, user_id, username, payment.total_amount,
                                  payment.telegram_payment_charge_id, t)
             a2 == record_event(a1, "subscription_purchase", user_id, "Pro 30 days", t)
             up == upgrade_subscription(w.state, user_id, "pro", None,
                                        TelegramStarsRef(payment.telegram_payment_charge_id),
                                        t + Days(PRO_DURATION_DAYS), t)
         IN  [w |-> [w EXCEPT !.analytics = a2, !.state = up.st],
              reply |-> Reply("ok", "Welcome to Pro!")]
    ELSE [w |-> w, reply |-> NoReply]

CommandNames ==
    {"/start", "/help", "/feedlist", "/addfeed", "/removefeed", "/digest",
     "/dailydigest", "/status", "/upgrade", "/format", "/settime", "/owner"}

\* The table of handlers of handle_message.
dispatch(w, user_id, command, args, entries, t) ==
    CASE command = "/start" -> handle_start(w, user_id, t)
      [] command = "/help" -> handle_help(w, user_id, t)
      [] command = "/feedlist" -> handle_feedlist(w, user_id, t)
      [] command = "/addfeed" -> handle_addfeed(w, user_id, args, t)
      [] command = "/removefeed" -> handle_removefeed(w, user_id, args, t)
      [] command \in {"/digest", "/dailydigest"} -> handle_digest(w, user_id, entries, t)
      [] command = "/status" -> handle_status(w, user_id, t)
      [] command = "/upgrade" -> handle_upgrade(w, user_id, t)
      [] command = "/format" -> handle_format(w, user_id, args, t)
      [] command = "/settime" -> handle_settime(w, user_id, args, t)
      [] command = "/owner" -> handle_owner(w, user_id, args, t)

\* What handle_message answers once handler has run and answered r.
handled(handler, r) == [w |-> r.w, handler |-> handler, reply |-> r.reply]

\* Mutant of handle_message: the rate limiter runs before the block check.
handle_message_limit_first(w, message, env, t) ==
    LET user_id == message.user_id
        m1 == register_user(w.username_map, user_id, message.username, t)
        c1 == IF get_owner_id(w.config) = None
              THEN set_owner_id(w.config, user_id) ELSE w.config
        rl == check_rate_limit(w.state, c1, user_id, "command", t)
        b == is_user_blocked(rl.st, user_id, t)
        w1 == [w EXCEPT !.username_map = m1, !.config = c1, !.state = b.st]
        d == dispatch(w1, user_id, message.command, message.args, env.entries, t)
    IN  IF "successful_payment" \in DOMAIN message
        THEN handled("successful_payment",
                     handle_successful_payment(w, user_id, message.successful_payment,
                                               env.username, t))
        ELSE IF ~rl.allowed
        THEN [w |-> w1, handler |-> None, reply |-> Reply("warn", "Rate limit exceeded.")]
        ELSE IF b.blocked
        THEN [w |-> w1, handler |-> None, reply |-> Reply("blocked", b.reason)]
        ELSE IF message.command = None
        THEN [w |-> w1, handler |-> None, reply |-> NoReply]
        ELSE IF message.command \notin CommandNames
        THEN [w |-> w1, handler |-> None, reply |-> Reply("info", "Unknown command. Try /help")]
        ELSE handled(message.command, d)

\* message is [user_id, username, successful_payment] or [user_id, username,
\* command, args], command being None for a text that is not a command.
\* env is what the outside answers during the call: [entries, username].
\* Answers [w, handler: the handler that ran or None, reply].
handle_message(w, message, env, t) ==
    LET user_id == message.user_id
        m1 == register_user(w.username_map, user_id, message.username, t)
        c1 == IF get_owner_id(w.config) = None
              THEN set_owner_id(w.config, user_id) ELSE w.config
        b == is_user_blocked(w.state, user_id, t)
        rl == check_rate_limit(b.st, c1, user_id, "command", t)
        w1 == [w EXCEPT !.username_map = m1, !.config = c1, !.state = b.st]
        w2 == [w1 EXCEPT !.state = rl.st]
        d == dispatch(w2, user_id, message.command, message.args, env.entries, t)
    IN  IF "successful_payment" \in DOMAIN message
        THEN handled("successful_payment",
                     handle_successful_payment(w, user_id, message.successful_payment,
                                               env.username, t))
        ELSE IF b.blocked
        THEN [w |-> w1, handler |-> None, reply |-> Reply("blocked", b.reason)]
        ELSE IF ~rl.allowed
        THEN [w |-> w2, handler |-> None, reply |-> Reply("warn", "Rate limit exceeded.")]
        ELSE IF message.command = None
        THEN [w |-> w2, handler |-> None, reply |-> NoReply]
        ELSE IF message.command \notin CommandNames
        THEN [w |-> w2, handler |-> None, reply |-> Reply("info", "Unknown command. Try /help")]
        ELSE handled(message.command, d)

-----------------------------------------------------------------------------
(* Initial values shared by the specifications *)

EmptyState == [u \in {} |-> DefaultUser(0)]
EmptyMap == [h \in {} |-> [user_id |-> None, username |-> None, last_seen |-> 0, slot |-> 0]]
EmptyAnalytics == [payments |-> <<>>, events |-> <<>>]
NoAdmissions == [k \in Users \X ActionClasses |-> <<>>]
NoProcs == [p \in {} |-> "idle"]

\* A deployment after the first identity has claimed ownership and made the
\* second one an admin: an owner, an admin and plain users.
StaffedConfig == [owner_id |-> UserIds[1], admins |-> <<UserIds[2]>>]

-----------------------------------------------------------------------------
(* SpecRate: one identity calls check_rate_limit for one action class, over *)
(* and over, while the clock moves.                                         *)

\* Clock steps that land just inside, exactly on and beyond a window's edge.
RateDeltas(action) ==
    {1, Sec(limits_config[action].window_seconds) - 1}

InitRate ==
    /\ config = StaffedConfig
    /\ state = EmptyState
    /\ username_map = EmptyMap
    /\ analytics = EmptyAnalytics
    /\ now = 0
    /\ ev = [op |-> "init"]
    /\ admitted = NoAdmissions
    /\ run \in [user_id : Users, action : ActionClasses, ticks : {MaxTicks}]
    /\ pc = NoProcs
    /\ lcl = NoProcs

RateCall ==
    LET r == check_rate_limit(state, config, run.user_id, run.action, now)
        k == <<run.user_id, run.action>>
    IN  /\ Len(admitted[k]) < limits_config[run.action].max_requests + MaxOver
        /\ state' = r.st
        /\ ev' = [op |-> "check_rate_limit", user_id |-> run.user_id,
                  action |-> run.action, allowed |-> r.allowed, wait |-> r.wait,
                  at |-> now]
        /\ admitted' = IF r.allowed
                       THEN [admitted EXCEPT ![k] = Append(@, now)]
                       ELSE admitted
        /\ UNCHANGED <<config, username_map, analytics, now, run, pc, lcl>>

RateTick ==
    /\ run.ticks > 0
    /\ \E d \in RateDeltas(run.action) : now' = now + d
    /\ run' = [run EXCEPT !.ticks = @ - 1]
    /\ UNCHANGED <<config, state, username_map, analytics, ev, admitted, pc, lcl>>

NextRate == RateCall \/ RateTick

SpecRate == InitRate /\ [][NextRate]_vars

\* The admissions of (user, action) whose time lies in the window ending at T.
AdmittedIn(user_id, action, T) ==
    LET h == admitted[<<user_id, action>>]
        W == Sec(limits_config[action].window_seconds)
    IN  {i \in 1..Len(h) : T - W < h[i] /\ h[i] <= T}

\* C1: for a non-privileged identity and each action class, the Allowed answers
\* whose time lies in (T - window, T] never number more than the class ceiling.
\* T ranges over the admission times and the present: a window ending anywhere
\* else holds no more admissions than the one ending at the last admission in it.
C1_RollingWindowCeiling ==
    \A user_id \in Users : \A action \in ActionClasses :
        ~is_privileged(config, user_id) =>
            \A T \in SeqToSet(admitted[<<user_id, action>>]) \cup {now} :
                Cardinality(AdmittedIn(user_id, action, T))
                    <= limits_config[action].max_requests

\* C1 witness: a non-privileged identity was refused at the ceiling and, the
\* window having moved on, has by now been admitted more often than the ceiling.
C1_Witness ==
    \E user_id \in Users : \E action \in ActionClasses :
        /\ ~is_privileged(config, user_id)
        /\ Len(admitted[<<user_id, action>>]) > limits_config[action].max_requests
        /\ Cardinality(AdmittedIn(user_id, action, now))
               = limits_config[action].max_requests
        /\ ev.op = "check_rate_limit" /\ ~ev.allowed

\* The timestamps stored for (user, action).
StoredTimestamps(user_id, action) ==
    state[user_id].rate_limits[limits_config[action].key]

\* C32: right after a check_rate_limit call for a non-privileged identity and
\* a known action class, Allowed or Denied, the stored timestamp list of that
\* class holds no timestamp ts with now - ts >= window.
C32_PrunedAfterEveryCheck ==
    (ev.op = "check_rate_limit" /\ ev.at = now /\ ~is_privileged(config, ev.user_id)) =>
        \A i \in DOMAIN StoredTimestamps(ev.user_id, ev.action) :
            now - StoredTimestamps(ev.user_id, ev.action)[i]
                < Sec(limits_config[ev.action].window_seconds)

\* C32 witness: a call has just been refused; an earlier admission of the
\* identity has left the window by now and is no longer stored.
C32_Witness ==
    /\ ev.op = "check_rate_limit" /\ ev.at = now /\ ~ev.allowed
    /\ ~is_privileged(config, ev.user_id)
    /\ \E i \in DOMAIN admitted[<<ev.user_id, ev.action>>] :
          /\ now - admitted[<<ev.user_id, ev.action>>][i]
                 >= Sec(limits_config[ev.action].window_seconds)
          /\ admitted[<<ev.user_id, ev.action>>][i]
                 \notin SeqToSet(StoredTimestamps(ev.user_id, ev.action))

\* The last call was a refusal for a non-privileged identity.
Refused ==
    ev.op = "check_rate_limit" /\ ~ev.allowed /\ ~is_privileged(config, ev.user_id)

\* C33 (as stated; violated): a refusal reports a wait w with
\* 0 < w <= window, and the next check, made w seconds after the refusal
\* with no admission in between, is admitted.
C33_RetryAfterPrecise ==
    /\ [](Refused => /\ 0 < ev.wait
                     /\ ev.wait <= limits_config[ev.action].window_seconds)
    /\ [][(/\ Refused
           /\ now = ev.at + Sec(ev.wait)
           /\ ev'.op = "check_rate_limit"
           /\ ev'.at = now) => ev'.allowed]_vars

-----------------------------------------------------------------------------
(* SpecLedger: the calls that read and write one account -- feeds, admin     *)
(* status, processor events, entitlement reads -- in any order, while days   *)
(* pass.  A run starts from the store an identity's first session leaves:    *)
(* the owner claimed, the identity an owner, an admin, a subscriber or a     *)
(* plain user, who has added its first feeds.                                *)

OwnedConfig == [owner_id |-> UserIds[1], admins |-> <<>>]

RemoveArgs ==
    {[index |-> 1], [index |-> 9], [url |-> Url("https", HostNames[1], "/feed")]}

CheckoutEvents(user_id) ==
    {[telegram_user_id |-> user_id, tier |-> tier, subscription |-> "sub_1",
      customer |-> "cus_1"] : tier \in {"pro", "basic"}}
        \cup {[telegram_user_id |-> user_id, tier |-> "pro", subscription |-> None,
               customer |-> "cus_1"]}

UpdateEvents(user_id) ==
    {[telegram_user_id |-> user_id, tier |-> "pro", subscription |-> "sub_1",
      customer |-> "cus_1", status |-> status, current_period_end |-> cpe] :
        status \in {"active", "past_due"}, cpe \in {NoTime, Days(45)}}

DeleteEvents(user_id) ==
    {[telegram_user_id |-> user_id, subscription |-> "sub_1", customer |-> "cus_1"]}

LedgerDeltas == {Days(30), Days(31)}

\* No checkout event has been delivered yet.
NoneApplied == [e \in {} |-> DefaultUser(0).subscription]

\* The store after user_id has called add_feed for the first n hosts, at time t.
RECURSIVE Stock(_, _, _, _, _)
Stock(st, cfg, user_id, n, t) ==
    IF n = 0
    THEN ensure_user(st, user_id, t)
    ELSE add_feed(Stock(st, cfg, user_id, n - 1, t), cfg, user_id,
                  Url("https", HostNames[n], ""), t).st

PlainUsers == Users \ {UserIds[1], UserIds[2]}

\* The stores a first session leaves, as [config, state, user_id].
FirstSessions ==
    LET Paid(u) == handle_checkout_completed(
                       EmptyState,
                       [telegram_user_id |-> u, tier |-> "pro",
                        subscription |-> "sub_0", customer |-> "cus_1"], 0).st
    IN  {[config |-> OwnedConfig, user_id |-> UserIds[1],
          state |-> Stock(EmptyState, OwnedConfig, UserIds[1], n, 0)] :
              n \in {0, NumHosts}}
        \cup {[config |-> StaffedConfig, user_id |-> UserIds[2],
               state |-> Stock(EmptyState, StaffedConfig, UserIds[2], n, 0)] :
                   n \in {0, NumHosts}}
        \cup {[config |-> OwnedConfig, user_id |-> u,
               state |-> Stock(Paid(u), OwnedConfig, u, n, 0)] :
                   u \in PlainUsers, n \in {0, NumHosts}}
        \cup {[config |-> OwnedConfig, user_id |-> u,
               state |-> Stock(EmptyState, OwnedConfig, u, n, 0)] :
                   u \in PlainUsers, n \in {0, NumHosts}}

InitLedger ==
    /\ \E s \in FirstSessions :
          /\ config = s.config
          /\ state = s.state
          /\ run = [user_id |-> s.user_id, steps |-> MaxSteps, ticks |-> MaxDays,
                    applied |-> NoneApplied]
    /\ username_map = EmptyMap
    /\ analytics = EmptyAnalytics
    /\ now = 0
    /\ ev = [op |-> "init"]
    /\ admitted = NoAdmissions
    /\ pc = NoProcs
    /\ lcl = NoProcs

LedgerCall ==
    /\ run.steps > 0
    /\ run' = [run EXCEPT !.steps = @ - 1]
    /\ UNCHANGED <<username_map, analytics, now, admitted, pc, lcl>>

LedgerAddFeed ==
    /\ LedgerCall
    /\ \E url \in Urls :
           LET r == add_feed(state, config, run.user_id, url, now)
           IN  /\ state' = r.st
               /\ ev' = [op |-> "add_feed", user_id |-> run.user_id, ok |-> r.ok,
                         msg |-> r.msg]
               /\ UNCHANGED config

LedgerRemoveFeed ==
    /\ LedgerCall
    /\ \E arg \in RemoveArgs :
           LET r == remove_feed(state, run.user_id, arg, now)
           IN  /\ state' = r.st
               /\ ev' = [op |-> "remove_feed", user_id |-> run.user_id, ok |-> r.ok]
               /\ UNCHANGED config

LedgerAddAdmin ==
    /\ LedgerCall
    /\ LET r == add_admin(config, username_map, [user_id |-> run.user_id])
       IN  /\ config' = r.cfg
           /\ ev' = [op |-> "add_admin", user_id |-> run.user_id, ok |-> r.ok]
           /\ UNCHANGED state

LedgerRemoveAdmin ==
    /\ LedgerCall
    /\ LET r == remove_admin(config, username_map, [user_id |-> run.user_id])
       IN  /\ config' = r.cfg
           /\ ev' = [op |-> "remove_admin", user_id |-> run.user_id, ok |-> r.ok]
           /\ UNCHANGED state

\* A delivery of a checkout.session.completed event.  run.applied keeps, per
\* event, the subscription its first delivery stored; a delivery is a
\* redelivery when the event was applied before and that subscription is
\* still the stored one.
LedgerCheckout ==
    /\ run.steps > 0
    /\ \E event \in CheckoutEvents(run.user_id) :
           LET r == handle_checkout_completed(state, event, now)
               u == run.user_id
               again == /\ event \in DOMAIN run.applied
                        /\ u \in DOMAIN state
                        /\ state[u].subscription = run.applied[event]
           IN  /\ state' = r.st
               /\ ev' = [op |-> "checkout_completed", user_id |-> u, ok |-> r.ok,
                         event |-> event, redelivery |-> again]
               /\ run' = [run EXCEPT
                            !.steps = @ - 1,
                            !.applied = IF r.ok /\ event \notin DOMAIN run.applied
                                        THEN (event :> r.st[u].subscription) @@ @
                                        ELSE @]
    /\ UNCHANGED <<config, username_map, analytics, now, admitted, pc, lcl>>

LedgerSubscriptionUpdated ==
    /\ LedgerCall
    /\ \E event \in UpdateEvents(run.user_id) :
           LET r == handle_subscription_updated(state, event, now)
           IN  /\ state' = r.st
               /\ ev' = [op |-> "subscription_updated", user_id |-> run.user_id,
                         ok |-> r.ok]
               /\ UNCHANGED config

LedgerSubscriptionDeleted ==
    /\ LedgerCall
    /\ \E event \in DeleteEvents(run.user_id) :
           LET r == handle_subscription_deleted(state, config, event, now)
           IN  /\ state' = r.st
               /\ ev' = [op |-> "subscription_deleted", user_id |-> run.user_id,
                         ok |-> r.ok, event |-> event]
               /\ UNCHANGED config

\* An invoice.payment_failed event, with the customer reference of the
\* checkouts or without one.
FailedInvoices == {[customer |-> "cus_1"], [customer |-> None]}

LedgerPaymentFailed ==
    /\ LedgerCall
    /\ \E event \in FailedInvoices :
           LET r == handle_payment_failed(state, event)
           IN  /\ state' = r.st
               /\ ev' = [op |-> "payment_failed", user_id |-> run.user_id,
                         ok |-> r.ok, event |-> event, notified |-> r.notified]
               /\ UNCHANGED config

\* What the call finds stored: whether the account is a lapsed paid one.
FindsLapsed(user_id) ==
    /\ user_id \in DOMAIN state
    /\ lapsed(state[user_id].subscription, now)

LedgerGetTierLimits ==
    /\ LedgerCall
    /\ LET r == get_tier_limits(state, config, run.user_id, now)
       IN  /\ state' = r.st
           /\ ev' = [op |-> "get_tier_limits", user_id |-> run.user_id,
                     privileged |-> is_privileged(config, run.user_id),
                     lapsed |-> FindsLapsed(run.user_id),
                     feeds_before |-> Len(ensure_user(state, run.user_id, now)
                                              [run.user_id].feeds),
                     limits |-> r.limits]
           /\ UNCHANGED config

LedgerIsSubscriptionActive ==
    /\ LedgerCall
    /\ LET r == is_subscription_active(state, config, run.user_id, now)
       IN  /\ state' = r.st
           /\ ev' = [op |-> "is_subscription_active", user_id |-> run.user_id,
                     privileged |-> is_privileged(config, run.user_id),
                     lapsed |-> FindsLapsed(run.user_id), active |-> r.active]
           /\ UNCHANGED config

LedgerTick ==
    /\ run.ticks > 0
    /\ \E d \in LedgerDeltas : now' = now + d
    /\ run' = [run EXCEPT !.ticks = @ - 1]
    /\ ev' = [op |-> "tick"]
    /\ UNCHANGED <<config, state, username_map, analytics, admitted, pc, lcl>>

NextLedger ==
    \/ LedgerAddFeed
    \/ LedgerRemoveFeed
    \/ LedgerAddAdmin
    \/ LedgerRemoveAdmin
    \/ LedgerCheckout
    \/ LedgerSubscriptionUpdated
    \/ LedgerSubscriptionDeleted
    \/ LedgerPaymentFailed
    \/ LedgerGetTierLimits
    \/ LedgerIsSubscriptionActive
    \/ LedgerTick

SpecLedger == InitLedger /\ [][NextLedger]_vars

-----------------------------------------------------------------------------
(* Claims checked under SpecLedger *)

\* C3 (as claimed): a checkout.session.completed event delivered a second
\* time, at any later moment, leaves the stored subscription, expires_at
\* included, exactly as its first delivery left it.
C3_CheckoutRedeliveryIdempotent ==
    (ev.op = "checkout_completed" /\ ev.redelivery) =>
        state[ev.user_id].subscription = run.applied[ev.event]

\* C5: get_tier_limits on a non-privileged account whose stored tier is paid
\* and whose expires_at is earlier than now answers the free tier's limits and
\* leaves the stored tier free, with at most 3 feeds.
C5_LazyExpiryTierLimits ==
    (ev.op = "get_tier_limits" /\ ~ev.privileged /\ ev.lapsed) =>
        /\ ev.limits = TIERS.free
        /\ state[ev.user_id].subscription.tier = "free"
        /\ Len(state[ev.user_id].feeds) <= TIERS.free.max_feeds

\* C5 witness: the call found a lapsed paid account holding more feeds than
\* the free quota, and has cut the list to the quota.
C5_Witness ==
    /\ ev.op = "get_tier_limits" /\ ~ev.privileged /\ ev.lapsed
    /\ ev.feeds_before > TIERS.free.max_feeds
    /\ Len(state[ev.user_id].feeds) = TIERS.free.max_feeds
    /\ state[ev.user_id].subscription.tier = "free"

\* C6 (as claimed): is_subscription_active on a non-privileged account whose
\* stored tier is paid and whose expires_at is earlier than now leaves the
\* stored tier free.
C6_LazyExpiryEntitlementCheck ==
    (ev.op = "is_subscription_active" /\ ~ev.privileged /\ ev.lapsed) =>
        state[ev.user_id].subscription.tier = "free"

\* max_feeds of the tier in effect: pro for the owner, an admin and a paid
\* subscription that has not lapsed, free otherwise.
EffectiveMaxFeeds(user_id) ==
    IF \/ is_privileged(config, user_id)
       \/ /\ state[user_id].subscription.tier = "pro"
          /\ ~lapsed(state[user_id].subscription, now)
    THEN TIERS.pro.max_feeds
    ELSE TIERS.free.max_feeds

\* C7 (as claimed): after any call, every account stores at most max_feeds
\* of its tier in effect.
C7_FeedsWithinEffectiveQuota ==
    ev.op # "tick" =>
        \A user_id \in DOMAIN state :
            Len(state[user_id].feeds) <= EffectiveMaxFeeds(user_id)

\* C36 (as stated; violated): a customer.subscription.deleted event whose
\* subscription reference differs from the one the account stores leaves the
\* stored tier and expiry as they were.
C36_StaleCancellationKeepsEntitlement ==
    [][(/\ run'.steps < run.steps
        /\ ev'.op = "subscription_deleted"
        /\ run.user_id \in DOMAIN state
        /\ state[run.user_id].subscription.stripe_subscription_id
               # StripeRef(ev'.event.subscription)) =>
           /\ state'[run.user_id].subscription.tier
                  = state[run.user_id].subscription.tier
           /\ state'[run.user_id].subscription.expires_at
                  = state[run.user_id].subscription.expires_at]_vars

\* C39 (as stated; violated): handle_payment_failed notifies an identity
\* only if the account's stored customer reference is set and equals the
\* event's; an event without a customer reference notifies nobody.
C39_PaymentFailedNotifiesMatchOnly ==
    ev.op = "payment_failed" =>
        \A user_id \in ev.notified :
            /\ state[user_id].subscription.stripe_customer_id # None
            /\ state[user_id].subscription.stripe_customer_id = ev.event.customer

-----------------------------------------------------------------------------
(* Spec: the chat pipeline.  Messages of two speakers, the first identity   *)
(* and the identity under test, go through handle_message one at a time;    *)
(* set_owner_id is also called on its own.  A run starts from an empty      *)
(* deployment or from one in which the speakers have already said /start.   *)

UsernameOf(user_id) ==
    CASE user_id = "7" -> "alice"
      [] user_id = "42" -> "bob"
      [] user_id = "100" -> "Alice"
      [] OTHER -> None

Speakers == {UserIds[1], run.user_id}

\* How the owner may name the identity under test: by id, or by handle.
Targets ==
    {[user_id |-> run.user_id]}
        \cup (IF UsernameOf(run.user_id) = None THEN {}
              ELSE {[username |-> UsernameOf(run.user_id)]})

Typed(command, args) == [command |-> command, args |-> args]

UserCommands ==
    {Typed(c, NoArgs) : c \in CommandNames \cup {None, "/unknown"}}
        \cup {Typed("/addfeed", [url |-> u]) :
                u \in {Url("https", HostNames[1], ""), Url("ftp", HostNames[1], "/feed")}}
        \cup {Typed("/removefeed", a) :
                a \in {[index |-> 1], [url |-> Url("https", HostNames[2], "/feed")]}}
        \cup {Typed("/settime", [time |-> s]) : s \in {"8:00", "25:00"}}
        \cup {Typed("/format", [subcommand |-> s]) : s \in {"reset", "tldr", "custom", "bogus"}}
        \cup {Typed("/format", [subcommand |-> "custom", prompt |-> p]) :
                p \in {Prompt("short", FALSE, FALSE), Prompt("fit", FALSE, TRUE)}}

OwnerCommands ==
    {Typed("/owner", [subcommand |-> s]) :
        s \in {"stats", "testpayment", "listadmins", "users", "payments", "exportfeeds",
               "addadmin", "removeadmin", "block", "unblock", "broadcast", "grant",
               "bulkadd", "bogus"}}
        \cup {Typed("/owner", [subcommand |-> s, target |-> x]) :
                s \in {"addadmin", "removeadmin", "block", "unblock", "grant"},
                x \in Targets}
        \cup {Typed("/owner", [subcommand |-> "block", target |-> x, reason |-> "abuse"]) :
                x \in Targets}
        \cup {Typed("/owner", [subcommand |-> "grant", target |-> x, days |-> d]) :
                x \in Targets, d \in {[n |-> PRO_DURATION_DAYS], [text |-> "soon"]}}
        \cup {Typed("/owner", [subcommand |-> "broadcast", message |-> "hello"])}
        \cup {Typed("/owner", [subcommand |-> "bulkadd", urls |-> us]) :
                us \in {<<Url("ftp", HostNames[1], "/feed")>>,
                        <<Url("https", HostNames[1], ""), Url("https", HostNames[1], ""),
                          Url("https", HostNames[2], "")>>}}

\* The charge references the payment provider issues to a payer; a reference
\* names one payment.
ChargeIds(user_id) == {"ch_" \o user_id}

Payments(user_id) ==
    {[invoice_payload |-> p, total_amount |-> PRO_PRICE_STARS,
      telegram_payment_charge_id |-> id] :
        p \in {Payload("test_payment", ""), Payload("pro_subscription_", user_id),
               Payload("donation", "")},
        id \in ChargeIds(user_id)}

ChatDeltas == {Sec(1), Days(PRO_DURATION_DAYS) + Sec(1)}

EmptyWorld == World(EmptyConfig, EmptyState, EmptyMap, EmptyAnalytics)

TextMessage(user_id, typed) ==
    [user_id |-> user_id, username |-> UsernameOf(user_id),
     command |-> typed.command, args |-> typed.args]

PaymentMessage(user_id, payment) ==
    [user_id |-> user_id, username |-> UsernameOf(user_id), successful_payment |-> payment]

\* The world after user_id sent /start at time 0.
Started(w, user_id) ==
    handle_message(w, TextMessage(user_id, Typed("/start", NoArgs)),
                   [entries |-> FALSE, username |-> None], 0).w

ChatSessions(user_id) ==
    {EmptyWorld}
        \cup UNION {{w, Started(w, user_id)} : w \in {Started(EmptyWorld, UserIds[1])}}

Init ==
    /\ run \in [user_id : Users, steps : {MaxSteps}]
    /\ \E w \in ChatSessions(run.user_id) :
        /\ config = w.config
        /\ state = w.state
        /\ username_map = w.username_map
        /\ analytics = w.analytics
    /\ now = 0
    /\ ev = [op |-> "init"]
    /\ admitted = NoAdmissions
    /\ pc = NoProcs
    /\ lcl = NoProcs

ChatCall ==
    /\ run.steps > 0
    /\ run' = [run EXCEPT !.steps = @ - 1]
    /\ UNCHANGED <<admitted, pc, lcl>>

Stored == World(config, state, username_map, analytics)

Store(w) ==
    /\ config' = w.config
    /\ state' = w.state
    /\ username_map' = w.username_map
    /\ analytics' = w.analytics

IsBlocked(user_id) == user_id \in DOMAIN state /\ state[user_id].security.blocked

\* One inbound message: handle_message from its first line to its return.
Deliver(message, env) ==
    \E r \in {handle_message(Stored, message, env, now)} :
        /\ Store(r.w)
        /\ ev' = [op |-> "message", user_id |-> message.user_id,
                  payment |-> "successful_payment" \in DOMAIN message,
                  blocked |-> IsBlocked(message.user_id),
                  handler |-> r.handler, reply |-> r.reply]
        /\ UNCHANGED now

ChatMessage ==
    /\ ChatCall
    /\ \E user_id \in Speakers, typed \in UserCommands \cup OwnerCommands,
          entries \in BOOLEAN :
        /\ entries \/ typed.command \in {"/digest", "/dailydigest"}
        /\ Deliver(TextMessage(user_id, typed), [entries |-> entries, username |-> None])

ChatPayment ==
    /\ ChatCall
    /\ \E user_id \in Speakers :
       \E payment \in Payments(user_id), username \in known_as(username_map, user_id) :
        Deliver(PaymentMessage(user_id, payment), [entries |-> FALSE, username |-> username])

ChatSetOwner ==
    /\ ChatCall
    /\ \E user_id \in Speakers :
        /\ config' = set_owner_id(config, user_id)
        /\ ev' = [op |-> "set_owner_id", user_id |-> user_id]
    /\ UNCHANGED <<state, username_map, analytics, now>>

ChatTick ==
    /\ ChatCall
    /\ \E d \in ChatDeltas : now' = now + d
    /\ ev' = [op |-> "tick"]
    /\ UNCHANGED <<config, state, username_map, analytics>>

Next ==
    \/ ChatMessage
    \/ ChatPayment
    \/ ChatSetOwner
    \/ ChatTick

Spec == Init /\ [][Next]_vars

-----------------------------------------------------------------------------
(* Claims checked under Spec *)

\* C4: a payment is recorded at most once per external payment reference: no
\* two records of the payments log carry the same telegram_payment_charge_id.
C4_PaymentRecordedOnce ==
    \A i, j \in DOMAIN analytics.payments :
        analytics.payments[i].payment_id = analytics.payments[j].payment_id => i = j

\* C8: a text or command that a blocked identity sends through handle_message
\* is answered with the stored block reason, no handler runs, and the three
\* stored rate-limit lists of the identity are the same before and after.
C8_BlockedCommandRejected ==
    [][(ev'.op = "message" /\ ~ev'.payment /\ IsBlocked(ev'.user_id)) =>
            /\ ev'.reply = Reply("blocked", state[ev'.user_id].security.block_reason)
            /\ ev'.handler = None
            /\ state'[ev'.user_id].rate_limits = state[ev'.user_id].rate_limits]_vars

\* A blocked identity that had already spent rate-limit budget sent a command
\* and was answered with the reason the owner gave.
C8_Witness ==
    /\ ev.op = "message"
    /\ ~ev.payment
    /\ ev.blocked
    /\ ev.reply = Reply("blocked", "abuse")
    /\ state[ev.user_id].rate_limits.command_timestamps # <<>>

\* C9: no handler runs for a message of an identity whose blocked flag is set,
\* be it a command handler or the payment handler.
C9_BlockedReachesNoHandler ==
    (ev.op = "message" /\ ev.blocked) => ev.handler = None

\* C10: owner assignment is first-writer-wins: with no owner stored, the
\* identity whose message or set_owner_id call comes first becomes the owner,
\* and once an owner is stored no step changes it.
C10_OwnerFirstWriterWins ==
    [][/\ config.owner_id # None => config'.owner_id = config.owner_id
       /\ (/\ config.owner_id = None
           /\ \/ ev'.op = "set_owner_id"
              \/ ev'.op = "message" /\ ~ev'.payment)
              => config'.owner_id = ev'.user_id]_vars

\* set_owner_id was called by an identity other than the stored owner and the
\* owner stayed.
C10_Witness ==
    /\ ev.op = "set_owner_id"
    /\ config.owner_id # None
    /\ config.owner_id # ev.user_id

\* The account a message finds: the stored one, or the one ensure_user creates.
AccountBefore(user_id) ==
    IF user_id \in DOMAIN state THEN state[user_id] ELSE DefaultUser(now)

\* C27: an /owner command of an identity that is not the stored owner, an
\* admin included, leaves the admin list and every account's block flag,
\* subscription and feed list as they were, whatever the subcommand.
C27_OwnerCommandsGated ==
    [][(/\ ev'.op = "message"
        /\ ev'.handler = "/owner"
        /\ config.owner_id # None
        /\ config.owner_id # ev'.user_id) =>
            /\ ev'.reply = Reply("warn", "This command is for the owner only.")
            /\ config' = config
            /\ \A u \in DOMAIN state' :
                /\ state'[u].security.blocked = AccountBefore(u).security.blocked
                /\ state'[u].subscription = AccountBefore(u).subscription
                /\ state'[u].feeds = AccountBefore(u).feeds]_vars

\* C27 witness: the owner had made the identity an admin; the admin's /owner
\* command was refused and the admin list still holds it alone.
C27_Witness ==
    /\ ev.op = "message"
    /\ ev.handler = "/owner"
    /\ ev.reply = Reply("warn", "This command is for the owner only.")
    /\ config.owner_id = UserIds[1]
    /\ config.admins = <<ev.user_id>>

\* C38 (as stated; violated): in every reachable state the account of the
\* owner is not blocked.
C38_OwnerNeverBlocked ==
    \A user_id \in Users :
        is_owner(config, user_id) => ~IsBlocked(user_id)

-----------------------------------------------------------------------------
(* SpecConc: two callers at once.  The payment webhook runs                 *)
(* upgrade_subscription and the chat runs check_rate_limit, each on the     *)
(* identity it addresses.  A call is a load_state step, for a missing       *)
(* account the create-and-save step of ensure_user, and a step that         *)
(* computes on the copy held in memory and ends with save_state of the      *)
(* whole file.  No step takes a lock: the code has none.                    *)

Procs == {"webhook", "chat"}

ConcTargets == [Procs -> Users]

InitConc ==
    /\ config = StaffedConfig
    /\ state = EmptyState
    /\ username_map = EmptyMap
    /\ analytics = EmptyAnalytics
    /\ now = 0
    /\ ev = [op |-> "init"]
    /\ admitted = NoAdmissions
    /\ run \in [target : ConcTargets, left : {[p \in Procs |-> MaxOps]},
                ticks : {MaxTicks}, appended : {<<>>}, upgraded : {0}]
    /\ pc = [p \in Procs |-> "idle"]
    /\ lcl = [p \in Procs |-> EmptyState]

ConcFrame == UNCHANGED <<config, username_map, analytics, admitted>>

\* load_state inside ensure_user.  For a privileged identity check_rate_limit
\* has answered before it reads the file.
ConcLoad(p) ==
    /\ pc[p] = "idle"
    /\ run.left[p] > 0
    /\ run' = [run EXCEPT !.left[p] = @ - 1]
    /\ IF p = "chat" /\ is_privileged(config, run.target[p])
       THEN UNCHANGED <<pc, lcl>>
       ELSE /\ lcl' = [lcl EXCEPT ![p] = state]
            /\ pc' = [pc EXCEPT ![p] = IF run.target[p] \in DOMAIN state
                                       THEN "loaded" ELSE "missing"]
    /\ ev' = [op |-> "load_state", proc |-> p]
    /\ UNCHANGED <<state, now>>
    /\ ConcFrame

\* The account is missing from the copy: ensure_user adds the default one and
\* saves the copy.
ConcCreate(p) ==
    /\ pc[p] = "missing"
    /\ lcl' = [lcl EXCEPT ![p] = ensure_user(lcl[p], run.target[p], now)]
    /\ state' = lcl'[p]
    /\ pc' = [pc EXCEPT ![p] = "loaded"]
    /\ ev' = [op |-> "ensure_user", proc |-> p]
    /\ UNCHANGED <<now, run>>
    /\ ConcFrame

\* upgrade_subscription from the line after ensure_user to its save_state.
ConcUpgrade ==
    /\ pc["webhook"] = "loaded"
    /\ state' = upgrade_subscription(lcl["webhook"], run.target["webhook"], "pro", "cus_1",
                                     StripeRef("sub_1"),
                                     now + Days(CHECKOUT_PERIOD_DAYS), now).st
    /\ run' = [run EXCEPT !.upgraded = @ + 1]
    /\ pc' = [pc EXCEPT !["webhook"] = "idle"]
    /\ ev' = [op |-> "upgrade_subscription", proc |-> "webhook"]
    /\ UNCHANGED <<now, lcl>>
    /\ ConcFrame

\* check_rate_limit from the line after ensure_user to its return: the copy is
\* saved only when the call is allowed.
ConcRateLimit ==
    /\ pc["chat"] = "loaded"
    /\ \E r \in {check_rate_limit(lcl["chat"], config, run.target["chat"], "command", now)} :
        /\ state' = IF r.allowed THEN r.st ELSE state
        /\ run' = IF r.allowed THEN [run EXCEPT !.appended = Append(@, now)] ELSE run
    /\ pc' = [pc EXCEPT !["chat"] = "idle"]
    /\ ev' = [op |-> "check_rate_limit", proc |-> "chat"]
    /\ UNCHANGED <<now, lcl>>
    /\ ConcFrame

ConcTick ==
    /\ run.ticks > 0
    /\ run' = [run EXCEPT !.ticks = @ - 1]
    /\ now' = now + Sec(1)
    /\ ev' = [op |-> "tick"]
    /\ UNCHANGED <<state, pc, lcl>>
    /\ ConcFrame

NextConc ==
    \/ \E p \in Procs : ConcLoad(p)
    \/ \E p \in Procs : ConcCreate(p)
    \/ ConcUpgrade
    \/ ConcRateLimit
    \/ ConcTick

SpecConc == InitConc /\ [][NextConc]_vars

-----------------------------------------------------------------------------
(* Claims checked under SpecConc *)

\* C2: when the webhook's upgrade_subscription and the chat's check_rate_limit
\* address the same identity and both have finished, the stored account holds
\* every timestamp an allowed check appended and, once an upgrade has
\* finished, the upgraded subscription.
C2_NoLostUpdate ==
    (/\ run.target["webhook"] = run.target["chat"]
     /\ \A p \in Procs : pc[p] = "idle"
     /\ run.target["chat"] \in DOMAIN state) =>
        /\ Len(state[run.target["chat"]].rate_limits.command_timestamps)
               = Len(run.appended)
        /\ run.upgraded > 0 => state[run.target["chat"]].subscription.tier = "pro"

\* C40 (as stated; violated): when the webhook's upgrade_subscription and the
\* chat's check_rate_limit address different identities and both have
\* finished, the store holds the upgraded subscription of the one, once an
\* upgrade has finished, and every timestamp an allowed check appended for
\* the other.
C40_OtherIdentitysUpdateSurvives ==
    (/\ run.target["webhook"] # run.target["chat"]
     /\ \A p \in Procs : pc[p] = "idle") =>
        /\ run.upgraded > 0 =>
              /\ run.target["webhook"] \in DOMAIN state
              /\ state[run.target["webhook"]].subscription.tier = "pro"
        /\ Len(run.appended) > 0 =>
              /\ run.target["chat"] \in DOMAIN state
              /\ Len(state[run.target["chat"]].rate_limits.command_timestamps)
                     = Len(run.appended)

-----------------------------------------------------------------------------
(* SpecHook: requests arrive at the payment webhook, by the Flask route or  *)
(* the Lambda entry point, while the clock moves.  The signing secret is     *)
(* configured or not.  Bodies are the processor's events for the identity    *)
(* under test and bodies that are no event; headers are signed with the      *)
(* configured key or another one, fresh, stale or post-dated, and headers    *)
(* that are cut, repeated or malformed.                                      *)

LiveKey == "whsec_live"
TestKey == "whsec_test"

Body(utf8, doc) == [utf8 |-> utf8, doc |-> doc]

Docs(user_id) ==
    {Event("checkout.session.completed", e) : e \in CheckoutEvents(user_id)}
        \cup {Event("customer.subscription.updated", e) : e \in UpdateEvents(user_id)}
        \cup {Event("customer.subscription.deleted", e) : e \in DeleteEvents(user_id)}
        \cup {Event("invoice.payment_failed", [customer |-> "cus_1"]),
              Event("charge.refunded", [customer |-> "cus_1"]),
              [kind |-> "array"], [kind |-> "garbage"]}

\* The body the header variants go with.
Checkout(user_id) ==
    Body(TRUE, Event("checkout.session.completed",
                     [telegram_user_id |-> user_id, tier |-> "pro",
                      subscription |-> "sub_1", customer |-> "cus_1"]))

Item(key, text) == <<key, text>>

V1(key, ts, payload) == Item("v1", hexdigest(key, signed_payload(ts, payload)))

\* t=<ts>,v1=<digest under key of ts.payload>
Signed(key, ts, payload) == <<Item("t", ts), V1(key, ts, payload)>>

\* Seconds between the clock and a header's timestamp: on and next to the
\* edge of the tolerance, on both sides.
Offsets ==
    {0, SIGNATURE_TOLERANCE, SIGNATURE_TOLERANCE + 1,
     0 - SIGNATURE_TOLERANCE, 0 - SIGNATURE_TOLERANCE - 1}

Headers(payload, t) ==
    LET s == Stamp(t \div Res)
        word == Text("word", <<>>)
        good == V1(LiveKey, s, payload)
        bad == V1(TestKey, s, payload)
    IN  {Signed(k, Stamp(t \div Res + d), payload) : k \in {LiveKey, TestKey}, d \in Offsets}
            \cup {<<Item("t", s), V1(LiveKey, s, Body(TRUE, [kind |-> "array"]))>>,
                  <<Item("t", s)>>,
                  <<good>>,
                  <<<<"">>>>,
                  <<Item("t", Text("empty", <<>>)), good>>,
                  <<Item("t", s), Item("v1", Text("empty", <<>>))>>,
                  Signed(LiveKey, word, payload),
                  <<Item("t", s), good, <<"v0", word, word>>>>,
                  <<Item("t", s), good, Item("v0", word)>>,
                  <<Item("t", s), bad, good>>,
                  <<Item("t", s), good, bad>>}

\* [payload, signature].  The processor signs, with the live key, only bodies
\* that decode; every body comes freshly signed, and one body comes with
\* every header.
Requests(user_id, t) ==
    {[payload |-> Body(TRUE, d),
      signature |-> Signed(LiveKey, Stamp(t \div Res), Body(TRUE, d))] : d \in Docs(user_id)}
        \cup {[payload |-> Body(FALSE, [kind |-> "garbage"]),
               signature |-> Signed(TestKey, Stamp(t \div Res), Body(FALSE, [kind |-> "garbage"]))]}
        \cup {[payload |-> Checkout(user_id), signature |-> h] :
                h \in Headers(Checkout(user_id), t)}

HookDeltas == {1, Sec(SIGNATURE_TOLERANCE)}

\* The first sessions of an admin and of a plain user, and a store that has
\* no account of the identity the events name.
HookSessions ==
    {s \in FirstSessions : s.user_id \in {UserIds[2], UserIds[3]}}
        \cup {[config |-> OwnedConfig, user_id |-> UserIds[3], state |-> EmptyState]}

InitHook ==
    /\ \E s \in HookSessions, secret \in {None, LiveKey} :
          /\ config = s.config
          /\ state = s.state
          /\ run = [user_id |-> s.user_id, secret |-> secret, steps |-> MaxSteps,
                    ticks |-> MaxDays]
    /\ username_map = EmptyMap
    /\ analytics = EmptyAnalytics
    /\ now = 0
    /\ ev = [op |-> "init"]
    /\ admitted = NoAdmissions
    /\ pc = NoProcs
    /\ lcl = NoProcs

HookRequest ==
    /\ run.steps > 0
    /\ run' = [run EXCEPT !.steps = @ - 1]
    /\ \E q \in Requests(run.user_id, now), entry \in {"stripe_webhook", "lambda_handler"} :
       \E r \in {IF entry = "stripe_webhook"
                 THEN stripe_webhook(state, config, run.secret, q.payload, q.signature, now)
                 ELSE lambda_handler(state, config, run.secret, q.payload, q.signature, now)} :
           /\ state' = r.st
           /\ ev' = [op |-> "webhook", entry |-> entry, payload |-> q.payload,
                     signature |-> q.signature,
                     verified |-> verify_webhook_signature(run.secret, q.payload,
                                                           q.signature, now),
                     status |-> r.status, processed |-> r.processed]
    /\ UNCHANGED <<config, username_map, analytics, now, admitted, pc, lcl>>

HookTick ==
    /\ run.ticks > 0
    /\ run' = [run EXCEPT !.ticks = @ - 1]
    /\ \E d \in HookDeltas : now' = now + d
    /\ ev' = [op |-> "tick"]
    /\ UNCHANGED <<config, state, username_map, analytics, admitted, pc, lcl>>

NextHook == HookRequest \/ HookTick

SpecHook == InitHook /\ [][NextHook]_vars

-----------------------------------------------------------------------------
(* Claims checked under SpecHook *)

\* The last item of the header under key, when the header splits in pairs.
Yields(signature, key, text) ==
    /\ \A i \in DOMAIN signature : Len(signature[i]) = 2
    /\ \E i \in DOMAIN signature :
        /\ signature[i] = <<key, text>>
        /\ \A j \in DOMAIN signature : signature[j][1] = key => j <= i

\* C12: verify_webhook_signature answers true exactly when a secret is
\* configured, the header yields a t and a v1, the clock is within 300
\* seconds of t on either side, and v1 is the HMAC-SHA256 under the secret of
\* t + "." + payload, the body read as text; so it answers false for another
\* HMAC, for a t more than 300 seconds back or ahead, and for a header without
\* t or without v1.  Of a key that comes twice the header yields the last value.
C12_SignatureAcceptedExactlyWhen ==
    ev.op = "webhook" =>
        (ev.verified <=>
            /\ run.secret # None
            /\ ev.payload.utf8
            /\ \E n \in {now \div Res + d : d \in Offsets} :
                /\ Yields(ev.signature, "t", Stamp(n))
                /\ now - Sec(n) <= Sec(SIGNATURE_TOLERANCE)
                /\ Sec(n) - now <= Sec(SIGNATURE_TOLERANCE)
                /\ Yields(ev.signature, "v1",
                          hexdigest(run.secret, signed_payload(Stamp(n), ev.payload))))

\* C12 witness: a request was accepted whose t lies exactly 300 seconds back.
C12_Witness ==
    /\ ev.op = "webhook"
    /\ ev.verified
    /\ Yields(ev.signature, "t", Stamp(now \div Res - SIGNATURE_TOLERANCE))
    /\ now = Sec(now \div Res)

\* C13: a request whose signature does not verify, or whose signature
\* verifies but whose body is not JSON, is answered 400 by either entry point,
\* process_webhook_event is not called for it, and the accounts, the
\* privilege record, the directory and the analytics are left as they were.
C13_RejectedRequestChangesNothing ==
    [][(/\ ev'.op = "webhook"
        /\ ~ev'.verified \/ ev'.payload.doc.kind = "garbage") =>
            /\ ev'.status = 400
            /\ ~ev'.processed
            /\ state' = state
            /\ config' = config
            /\ username_map' = username_map
            /\ analytics' = analytics]_vars

\* C13 witness: a checkout event for a free account came with a signature
\* under another key, and the account is still free.
C13_Witness ==
    /\ ev.op = "webhook"
    /\ ~ev.verified
    /\ ev.status = 400
    /\ run.secret # None
    /\ ev.payload = Checkout(run.user_id)
    /\ Yields(ev.signature, "v1",
              hexdigest(TestKey, signed_payload(Stamp(now \div Res), ev.payload)))
    /\ run.user_id \in DOMAIN state
    /\ state[run.user_id].subscription.tier = "free"

-----------------------------------------------------------------------------
(* SpecBoot: first interactions at once.  Two request threads each run the  *)
(* owner lines of handle_message for the sender of their message:            *)
(* get_owner_id (a load_config), and when it finds no owner set_owner_id,    *)
(* which is a load_config step and then, when the copy still holds no owner, *)
(* a save_config of the copy.  No step takes a lock: the code has none.      *)

Threads == {"t1", "t2"}

InitBoot ==
    /\ config = EmptyConfig
    /\ state = EmptyState
    /\ username_map = EmptyMap
    /\ analytics = EmptyAnalytics
    /\ now = 0
    /\ ev = [op |-> "init"]
    /\ admitted = NoAdmissions
    /\ run \in [sender : [Threads -> Users], left : {[p \in Threads |-> MaxOps]}]
    /\ pc = [p \in Threads |-> "idle"]
    /\ lcl = [p \in Threads |-> EmptyConfig]

BootFrame == UNCHANGED <<state, username_map, analytics, admitted>>

\* if not get_owner_id(): the thread takes up a message and reads the owner.
BootGetOwner(p) ==
    /\ pc[p] = "idle"
    /\ run.left[p] > 0
    /\ run' = [run EXCEPT !.left[p] = @ - 1]
    /\ pc' = [pc EXCEPT ![p] = IF get_owner_id(config) = None THEN "set_owner_id"
                               ELSE "idle"]
    /\ ev' = [op |-> "get_owner_id", thread |-> p, user_id |-> run.sender[p]]
    /\ UNCHANGED <<config, now, lcl>>
    /\ BootFrame

\* config = load_config(), the first line of set_owner_id.
BootLoadConfig(p) ==
    /\ pc[p] = "set_owner_id"
    /\ lcl' = [lcl EXCEPT ![p] = config]
    /\ pc' = [pc EXCEPT ![p] = "loaded"]
    /\ ev' = [op |-> "load_config", thread |-> p, user_id |-> run.sender[p]]
    /\ UNCHANGED <<config, now, run>>
    /\ BootFrame

\* The rest of set_owner_id: the test on the copy, and save_config of the copy.
BootSaveConfig(p) ==
    /\ pc[p] = "loaded"
    /\ config' = IF get_owner_id(lcl[p]) = None
                 THEN set_owner_id(lcl[p], run.sender[p])
                 ELSE config
    /\ pc' = [pc EXCEPT ![p] = "idle"]
    /\ ev' = [op |-> "set_owner_id", thread |-> p, user_id |-> run.sender[p],
              saved |-> get_owner_id(lcl[p]) = None]
    /\ UNCHANGED <<now, run, lcl>>
    /\ BootFrame

NextBoot ==
    \/ \E p \in Threads : BootGetOwner(p)
    \/ \E p \in Threads : BootLoadConfig(p)
    \/ \E p \in Threads : BootSaveConfig(p)

SpecBoot == InitBoot /\ [][NextBoot]_vars

-----------------------------------------------------------------------------
(* Claims checked under SpecBoot *)

\* C11 (as claimed): with the load_config and save_config steps of two first
\* interactions interleaved, once a write has stored an owner no later write
\* replaces it with another identity.
C11_OwnerWrittenOnceConcurrently ==
    [][config.owner_id # None => config'.owner_id = config.owner_id]_vars

-----------------------------------------------------------------------------
(* SpecAccount: the ledger and limiter calls on one account, whatever the   *)
(* store holds for it.  A run starts from a first session, from a store     *)
(* without a record of the identity, or from the store of a subscriber who  *)
(* used up its command budget and was then made an admin.                   *)

\* The store after user_id was admitted n times for action at time t.
RECURSIVE Spent(_, _, _, _, _, _)
Spent(st, cfg, user_id, action, n, t) ==
    IF n = 0
    THEN st
    ELSE CHOOSE s2 \in {check_rate_limit(s1, cfg, user_id, action, t).st :
                            s1 \in {Spent(st, cfg, user_id, action, n - 1, t)}} : TRUE

AccountSessions ==
    LET u == UserIds[3]
        paid == handle_checkout_completed(
                    EmptyState,
                    [telegram_user_id |-> u, tier |-> "pro", subscription |-> "sub_0",
                     customer |-> "cus_1"], 0).st
        busy == Spent(Stock(paid, OwnedConfig, u, NumHosts, 0), OwnedConfig, u, "command",
                      RATE_LIMITS.commands_per_minute, 0)
    IN  FirstSessions
            \cup {[config |-> OwnedConfig, user_id |-> v, state |-> EmptyState] :
                     v \in {UserIds[1], u}}
            \cup {[config |-> StaffedConfig, user_id |-> UserIds[2], state |-> EmptyState],
                  [config |-> OwnedConfig, user_id |-> u, state |-> busy],
                  [config |-> add_admin(OwnedConfig, EmptyMap, [user_id |-> u]).cfg,
                   user_id |-> u, state |-> busy]}

\* What the callers of upgrade_subscription pass: a checkout, a renewal with
\* the processor's period end, an owner grant, a tier the table lacks.
UpgradeArgs(user_id, t) ==
    {[tier |-> tier, stripe_customer_id |-> "cus_1",
      stripe_subscription_id |-> StripeRef("sub_1"), expires_at |-> e] :
         tier \in {"pro", "basic"}, e \in {t + Days(CHECKOUT_PERIOD_DAYS), Days(45)}}
        \cup {[tier |-> "pro", stripe_customer_id |-> None,
               stripe_subscription_id |-> OwnerGrantRef(UserIds[1]),
               expires_at |-> t + Days(15)]}

InitAccount ==
    /\ \E s \in AccountSessions :
          /\ config = s.config
          /\ state = s.state
          /\ run = [user_id |-> s.user_id, steps |-> MaxSteps, ticks |-> MaxDays,
                    applied |-> NoneApplied]
    /\ username_map = EmptyMap
    /\ analytics = EmptyAnalytics
    /\ now = 0
    /\ ev = [op |-> "init"]
    /\ admitted = NoAdmissions
    /\ pc = NoProcs
    /\ lcl = NoProcs

\* The subscription a call finds: the stored one, or the one ensure_user
\* creates.
Found(user_id) == ensure_user(state, user_id, now)[user_id].subscription

AcctDowngrade ==
    /\ LedgerCall
    /\ state' = downgrade_to_free(state, config, run.user_id, now)
    /\ ev' = [op |-> "downgrade_to_free", user_id |-> run.user_id,
              privileged |-> is_privileged(config, run.user_id),
              feeds_before |-> Len(ensure_user(state, run.user_id, now)[run.user_id].feeds)]
    /\ UNCHANGED config

AcctUpgrade ==
    /\ LedgerCall
    /\ \E a \in UpgradeArgs(run.user_id, now) :
       \E r \in {upgrade_subscription(state, run.user_id, a.tier, a.stripe_customer_id,
                                      a.stripe_subscription_id, a.expires_at, now)} :
           /\ state' = r.st
           /\ ev' = [op |-> "upgrade_subscription", user_id |-> run.user_id, args |-> a,
                     ok |-> r.ok, found |-> Found(run.user_id)]
    /\ UNCHANGED config

AcctCheckRateLimit ==
    /\ LedgerCall
    /\ \E action \in ActionClasses :
       \E r \in {check_rate_limit(state, config, run.user_id, action, now)} :
           /\ state' = r.st
           /\ ev' = [op |-> "check_rate_limit", user_id |-> run.user_id,
                     action |-> action, privileged |-> is_privileged(config, run.user_id),
                     allowed |-> r.allowed]
    /\ UNCHANGED config

\* Any identity's call reaches ensure_user; the read of the store succeeds or
\* fails.  ensure_user saves what it loaded plus the default account.
AcctEnsureUser ==
    /\ LedgerCall
    /\ \E user_id \in Users, readable \in BOOLEAN :
        /\ state' = ensure_user(load_state(state, readable), user_id, now)
        /\ ev' = [op |-> "ensure_user", user_id |-> user_id, readable |-> readable]
    /\ UNCHANGED config

\* The clock moves between two calls; ev keeps the last call.
AcctTick ==
    /\ run.ticks > 0
    /\ \E d \in LedgerDeltas : now' = now + d
    /\ run' = [run EXCEPT !.ticks = @ - 1]
    /\ UNCHANGED <<config, state, username_map, analytics, ev, admitted, pc, lcl>>

NextAccount ==
    \/ AcctDowngrade
    \/ AcctUpgrade
    \/ AcctCheckRateLimit
    \/ AcctEnsureUser
    \/ LedgerGetTierLimits
    \/ LedgerIsSubscriptionActive
    \/ AcctTick

SpecAccount == InitAccount /\ [][NextAccount]_vars

-----------------------------------------------------------------------------
(* Claims checked under SpecAccount *)

\* This step is a call of op: a clock step leaves ev, the last call, in place.
Calls(op) == run'.steps < run.steps /\ ev'.op = op

\* C14: downgrade_to_free leaves a non-privileged account with tier free, no
\* expiry, no subscription reference and its first 3 feeds; applied a second
\* time it leaves the store as the first application left it; for an owner or
\* an admin it leaves the store as it was.
C14_DowngradeIdempotentSkipsPrivileged ==
    [][Calls("downgrade_to_free") =>
        LET u == ev'.user_id
        IN  /\ ev'.privileged => state' = state
            /\ ~ev'.privileged =>
                /\ state'[u].subscription.tier = "free"
                /\ state'[u].subscription.expires_at = NoTime
                /\ state'[u].subscription.stripe_subscription_id = NoSubRef
                /\ state'[u].feeds
                       = Take(ensure_user(state, u, now)[u].feeds, TIERS.free.max_feeds)
            /\ ev.op = "downgrade_to_free" => state' = state]_vars

\* C14 witness: a former subscriber already cut to the 3 feeds of the free
\* tier was downgraded once more and still holds them.
C14_Witness ==
    /\ ev.op = "downgrade_to_free"
    /\ ~ev.privileged
    /\ ev.feeds_before = TIERS.free.max_feeds
    /\ run.steps = 0
    /\ Len(state[ev.user_id].feeds) = TIERS.free.max_feeds
    /\ state[ev.user_id].subscription.stripe_customer_id = "cus_1"

\* C15: upgrade_subscription called a second time with the same tier,
\* customer reference, subscription reference and expiry, at the same or a
\* later moment, leaves the store, created_at included, as the first call
\* left it.
C15_UpgradeIdempotent ==
    [][(/\ ev.op = "upgrade_subscription"
        /\ Calls("upgrade_subscription")
        /\ ev'.args = ev.args) => state' = state]_vars

\* C15 witness: an upgrade was repeated after the clock had moved, and the
\* account holds the repeated terms and the created_at of its creation.
C15_Witness ==
    /\ ev.op = "upgrade_subscription"
    /\ ev.ok
    /\ ev.found.tier = ev.args.tier
    /\ ev.found.expires_at = ev.args.expires_at
    /\ ev.found.stripe_subscription_id = ev.args.stripe_subscription_id
    /\ run.steps = 0
    /\ now > 0
    /\ state[ev.user_id].subscription.created_at = 0

\* C16 (as claimed): on an account already on a paid tier with a stored
\* expiry, upgrade_subscription with the same tier and a later expiry stores
\* the later expiry, and an upgrade with the same tier never leaves the stored
\* expiry earlier than it was.
C16_UpgradeNeverShortens ==
    [][(/\ Calls("upgrade_subscription")
        /\ ev'.ok
        /\ ev'.found.tier = ev'.args.tier
        /\ ev'.found.expires_at # NoTime) =>
            /\ ev'.args.expires_at > ev'.found.expires_at =>
                   state'[ev'.user_id].subscription.expires_at = ev'.args.expires_at
            /\ state'[ev'.user_id].subscription.expires_at >= ev'.found.expires_at]_vars

\* C17: for the owner and for an admin, check_rate_limit answers Allowed for
\* every action class, whatever timestamps the store holds, and leaves the
\* store as it was.
C17_PrivilegedNeverLimited ==
    [][(Calls("check_rate_limit") /\ ev'.privileged) =>
            /\ ev'.allowed
            /\ state' = state]_vars

\* C17 witness: an admin whose stored command list is at the ceiling, all of
\* it inside the window, was allowed.
C17_Witness ==
    /\ ev.op = "check_rate_limit"
    /\ ev.privileged
    /\ ev.allowed
    /\ ev.action = "command"
    /\ ev.user_id \in DOMAIN state
    /\ Len(prune(state[ev.user_id].rate_limits.command_timestamps,
                 Sec(limits_config.command.window_seconds), now))
           = RATE_LIMITS.commands_per_minute

\* C18: for the owner and for an admin, get_tier_limits answers the pro
\* definition and is_subscription_active answers true, whether the store
\* holds a free subscription, a lapsed paid one or no record of the identity,
\* and neither call changes the store.
C18_PrivilegedAlwaysEntitled ==
    [][(/\ Calls("get_tier_limits") \/ Calls("is_subscription_active")
        /\ ev'.privileged) =>
            /\ ev'.op = "get_tier_limits" => ev'.limits = TIERS.pro
            /\ ev'.op = "is_subscription_active" => ev'.active
            /\ state' = state]_vars

\* C18 witness: an admin whose stored paid subscription has lapsed was
\* answered as entitled, and the stored tier is still the paid one.
C18_Witness ==
    /\ ev.op = "is_subscription_active"
    /\ ev.privileged
    /\ ev.lapsed
    /\ ev.active
    /\ is_admin(config, ev.user_id)
    /\ state[ev.user_id].subscription.tier = "pro"

\* C19 (as claimed): when the store cannot be read at the moment ensure_user
\* loads it, the call still answers, and every other account the store held
\* before the call is in the store, unchanged, after it.
C19_FailedReadKeepsOtherAccounts ==
    [][(Calls("ensure_user") /\ ~ev'.readable) =>
            /\ ev'.user_id \in DOMAIN state'
            /\ \A u \in DOMAIN state \ {ev'.user_id} :
                   u \in DOMAIN state' /\ state'[u] = state[u]]_vars

-----------------------------------------------------------------------------
(* SpecStaff: the privilege record under every sequence of the calls that   *)
(* write it.  Any identity's message runs the owner lines of handle_message *)
(* (set_owner_id when no owner is stored); any identity sends                *)
(* /owner addadmin and /owner removeadmin, naming any identity by id or by  *)
(* handle.  add_admin and remove_admin have no other caller.  The read at   *)
(* the top of add_admin may raise, and load_config then answers its default. *)

\* The directory after the first n identities have written to the bot.
RECURSIVE Registered(_)
Registered(n) ==
    IF n = 0
    THEN EmptyMap
    ELSE register_user(Registered(n - 1), UserIds[n], UsernameOf(UserIds[n]), 0)

StaffTargets ==
    {[user_id |-> u] : u \in Users}
        \cup {[username |-> UsernameOf(u)] : u \in {v \in Users : UsernameOf(v) # None}}
        \cup {[username |-> "carol"]}

InitStaff ==
    /\ config = EmptyConfig
    /\ state = EmptyState
    /\ username_map = Registered(NumUsers)
    /\ analytics = EmptyAnalytics
    /\ now = 0
    /\ ev = [op |-> "init"]
    /\ admitted = NoAdmissions
    /\ run = [user_id |-> UserIds[1]]
    /\ pc = NoProcs
    /\ lcl = NoProcs

\* if not get_owner_id(): set_owner_id(user_id), in handle_message.
StaffSetOwner ==
    /\ \E user_id \in Users :
        /\ config' = IF get_owner_id(config) = None
                     THEN set_owner_id(config, user_id) ELSE config
        /\ ev' = [op |-> "set_owner_id", user_id |-> user_id]
    /\ UNCHANGED <<state, username_map, analytics, now, admitted, run, pc, lcl>>

StaffOwnerCommand ==
    /\ \E user_id \in Users, subcommand \in {"addadmin", "removeadmin"},
          target \in StaffTargets :
       \E args \in {[subcommand |-> subcommand, target |-> target]} :
       \E r \in {handle_owner(Stored, user_id, args, now)} :
           /\ Store(r.w)
           /\ ev' = [op |-> "owner_command", user_id |-> user_id, args |-> args,
                     reply |-> r.reply]
    /\ UNCHANGED <<now, admitted, run, pc, lcl>>

\* /owner addadmin whose is_owner gate read the file, and whose add_admin
\* then got the default from load_config.  The target is not the owner, so
\* the is_owner test inside add_admin answers False whatever its read gives.
StaffAddAdminFailedRead ==
    /\ \E user_id \in Users, target \in StaffTargets :
       \E args \in {[subcommand |-> "addadmin", target |-> target]} :
       \E r \in {add_admin(load_config(config, FALSE), username_map, target)} :
           /\ is_owner(config, user_id)
           /\ ~is_owner(config, resolve(username_map, target))
           /\ config' = r.cfg
           /\ ev' = [op |-> "owner_command", user_id |-> user_id, args |-> args,
                     reply |-> Reply(IF r.ok THEN "ok" ELSE "warn", r.msg)]
    /\ UNCHANGED <<state, username_map, analytics, now, admitted, run, pc, lcl>>

NextStaff == StaffSetOwner \/ StaffOwnerCommand \/ StaffAddAdminFailedRead

SpecStaff == InitStaff /\ [][NextStaff]_vars

-----------------------------------------------------------------------------
(* Claims checked under SpecStaff *)

\* C20 (as stated; violated): after every set_owner_id, add_admin and
\* remove_admin call the owner is not in the admin list and the list holds
\* no identity twice; add_admin, asked to add the owner or an identity that
\* is an admin already, refuses and leaves the record as it was.
C20_OwnerNotAdminNoDuplicates ==
    [][/\ ~is_admin(config', config'.owner_id)
       /\ \A i, j \in DOMAIN config'.admins :
              config'.admins[i] = config'.admins[j] => i = j
       /\ (/\ ev'.op = "owner_command"
           /\ is_owner(config, ev'.user_id)
           /\ ev'.args.subcommand = "addadmin"
           /\ \/ is_owner(config, resolve(username_map, ev'.args.target))
              \/ is_admin(config, resolve(username_map, ev'.args.target))) =>
              /\ config' = config
              /\ ev'.reply.icon = "warn"]_vars

\* C21: downgrade_to_free on a non-privileged account holding more than 3
\* feeds leaves exactly the 3 feeds added first, in the order they were
\* added; an account holding 3 feeds or fewer keeps its list as it was.
C21_DowngradeKeepsEarliestFeeds ==
    [][(Calls("downgrade_to_free") /\ ~ev'.privileged) =>
        LET u == ev'.user_id
            before == ensure_user(state, u, now)[u].feeds
            after == state'[u].feeds
        IN  /\ Len(before) > 3 =>
                /\ Len(after) = 3
                /\ \A i \in 1..3 : after[i] = before[i]
            /\ Len(before) <= 3 => after = before]_vars

\* C21 witness: a subscriber who had added more than 3 feeds was downgraded
\* and holds the feeds of the first three hosts, in that order.
C21_Witness ==
    /\ ev.op = "downgrade_to_free"
    /\ ~ev.privileged
    /\ ev.feeds_before > 3
    /\ state[ev.user_id].feeds
           = [i \in 1..3 |-> validate_feed_url(Url("https", HostNames[i], "")).result]

-----------------------------------------------------------------------------
(* SpecFeeds: the feed list of one identity.  add_feed, remove_feed,        *)
(* list_feeds and upgrade_subscription are called for it in any order while *)
(* days pass.  A run starts from the store the identity's earlier add_feed  *)
(* calls left: none yet, one per host, or, for the owner and an admin, as   *)
(* many as the pro tier counts.  The identity is the owner, an admin or one *)
(* plain user, subscribed or not.                                           *)

FeedPath(i) == "/p" \o ToString(i)

\* The store after user_id has called add_feed for n paths of one host.
RECURSIVE Filled(_, _, _, _, _)
Filled(st, cfg, user_id, n, t) ==
    IF n = 0
    THEN ensure_user(st, user_id, t)
    ELSE CHOOSE s2 \in {add_feed(s1, cfg, user_id,
                                 Url("https", HostNames[4], FeedPath(n)), t).st :
                            s1 \in {Filled(st, cfg, user_id, n - 1, t)}} : TRUE

FeedSessions ==
    LET Paid(u) == handle_checkout_completed(
                       EmptyState,
                       [telegram_user_id |-> u, tier |-> "pro",
                        subscription |-> "sub_0", customer |-> "cus_1"], 0).st
        staff == {[config |-> OwnedConfig, user_id |-> UserIds[1]],
                  [config |-> StaffedConfig, user_id |-> UserIds[2]]}
    IN  {[config |-> s.config, user_id |-> s.user_id,
          state |-> Stock(EmptyState, s.config, s.user_id, n, 0)] :
              s \in staff, n \in 0..NumHosts}
        \cup {[config |-> s.config, user_id |-> s.user_id,
               state |-> Filled(EmptyState, s.config, s.user_id,
                                TIERS.pro.max_feeds, 0)] : s \in staff}
        \cup {[config |-> OwnedConfig, user_id |-> u,
               state |-> Stock(EmptyState, OwnedConfig, u, n, 0)] :
                   u \in {UserIds[3]}, n \in 0..NumHosts}
        \cup {[config |-> OwnedConfig, user_id |-> u,
               state |-> Stock(Paid(u), OwnedConfig, u, n, 0)] :
                   u \in {UserIds[3]}, n \in 0..NumHosts}
        \cup {[config |-> OwnedConfig, user_id |-> u, state |-> EmptyState] :
                   u \in {UserIds[3]}}

\* What the identity may type: Urls, and a URL no session has added.
FeedUrls == Urls \cup {Url("https", HostNames[4], "/new")}

InitFeeds ==
    /\ \E s \in FeedSessions :
          /\ config = s.config
          /\ state = s.state
          /\ run = [user_id |-> s.user_id, steps |-> MaxSteps, ticks |-> MaxDays]
    /\ username_map = EmptyMap
    /\ analytics = EmptyAnalytics
    /\ now = 0
    /\ ev = [op |-> "init"]
    /\ admitted = NoAdmissions
    /\ pc = NoProcs
    /\ lcl = NoProcs

FeedAdd ==
    /\ LedgerCall
    /\ \E url \in FeedUrls :
       \E r \in {add_feed(state, config, run.user_id, url, now)} :
           /\ state' = r.st
           /\ ev' = [op |-> "add_feed", user_id |-> run.user_id, url |-> url,
                     privileged |-> is_privileged(config, run.user_id),
                     ok |-> r.ok, msg |-> r.msg]
    /\ UNCHANGED config

FeedList ==
    /\ LedgerCall
    /\ \E r \in {list_feeds(state, run.user_id, now)} :
           /\ state' = r.st
           /\ ev' = [op |-> "list_feeds", user_id |-> run.user_id, feeds |-> r.feeds,
                     fresh |-> run.user_id \notin DOMAIN state]
    /\ UNCHANGED config

NextFeeds ==
    \/ FeedAdd
    \/ LedgerRemoveFeed
    \/ FeedList
    \/ AcctUpgrade
    \/ AcctTick

SpecFeeds == InitFeeds /\ [][NextFeeds]_vars

-----------------------------------------------------------------------------
(* Claims checked under SpecFeeds *)

\* The account an add_feed, list_feeds or upgrade call of this step finds:
\* the stored one, or the one ensure_user creates.
Held == ensure_user(state, ev'.user_id, now)[ev'.user_id]

\* The URL of this step's add_feed is valid and its normalized form is new.
AddsNew ==
    /\ Calls("add_feed")
    /\ validate_feed_url(ev'.url).valid
    /\ validate_feed_url(ev'.url).result \notin SeqToSet(Held.feeds)

Appended ==
    /\ ev'.ok
    /\ state'[ev'.user_id].feeds = Append(Held.feeds, validate_feed_url(ev'.url).result)

\* C22: for a non-privileged account: list_feeds of an account not stored yet
\* is empty; add_feed of a valid URL that is not in the list appends its
\* normalized form while fewer than 3 feeds are stored; with 3 feeds stored on
\* the free tier it fails with the free tier's quota message and leaves the
\* list as it was; once upgrade_subscription has stored the pro tier with an
\* expiry in the future, the same add succeeds.
C22_FreeQuotaThenUpgrade ==
    [][/\ (Calls("list_feeds") /\ ev'.fresh) =>
              /\ ev'.feeds = <<>>
              /\ state'[ev'.user_id].feeds = <<>>
       /\ (AddsNew /\ ~ev'.privileged) =>
              /\ (Held.subscription.tier = "free" /\ Len(Held.feeds) < 3) => Appended
              /\ (Held.subscription.tier = "free" /\ Len(Held.feeds) = 3) =>
                     /\ ~ev'.ok
                     /\ ev'.msg = "Feed limit reached (free tier)."
                     /\ state'[ev'.user_id].feeds = Held.feeds
              /\ (/\ ev.op = "upgrade_subscription" /\ ev.ok
                  /\ Held.subscription.tier = "pro"
                  /\ Held.subscription.expires_at > now
                  /\ Len(Held.feeds) = 3) => Appended]_vars

\* C22 witness: an account whose fourth add_feed was refused on the free tier
\* was upgraded, and its next add_feed stored a fourth feed.
C22_Witness ==
    /\ ev.op = "add_feed" /\ ev.ok /\ ~ev.privileged
    /\ run.steps = 0
    /\ state[ev.user_id].subscription.tier = "pro"
    /\ state[ev.user_id].subscription.stripe_subscription_id = StripeRef("sub_1")
    /\ Len(state[ev.user_id].feeds) = 4
    /\ Len(state[ev.user_id].rate_limits.feed_add_timestamps) = 5

\* The URL of this step's add_feed is valid and its normalized form is in the
\* list already.
AddsPresent ==
    /\ Calls("add_feed")
    /\ validate_feed_url(ev'.url).valid
    /\ validate_feed_url(ev'.url).result \in SeqToSet(Held.feeds)

NoRepeats(feeds) == Cardinality(SeqToSet(feeds)) = Len(feeds)

\* C23 (as stated; violated): no feed list holds a normalized URL twice, and
\* an add_feed whose normalized URL is in the list already fails with
\* "already added" and leaves the list as it was.
C23_PresentUrlAnswersAlreadyAdded ==
    [][/\ \A u \in DOMAIN state' : NoRepeats(state'[u].feeds)
       /\ AddsPresent =>
              /\ ~ev'.ok
              /\ ev'.msg = "Feed already added."
              /\ state'[ev'.user_id].feeds = Held.feeds]_vars

\* C23 (amended): no feed list holds a normalized URL twice; an add_feed that
\* the rate limiter admits and whose normalized URL is in the list already
\* fails, with "already added" when the list holds fewer feeds than the tier
\* in effect allows and with the feed-limit message when it is full; it
\* leaves the list as it was, but for a lapsed paid account, which the call
\* downgrades and cuts to its first 3 feeds.
C23_NoDuplicateFeeds ==
    [][/\ \A u \in DOMAIN state' : NoRepeats(state'[u].feeds)
       /\ (AddsPresent /\ ev'.msg # "Rate limit exceeded.") =>
              /\ ~ev'.ok
              /\ IF Len(Held.feeds) < EffectiveMaxFeeds(ev'.user_id)
                 THEN ev'.msg = "Feed already added."
                 ELSE ev'.msg \in {"Feed limit reached (free tier).",
                                   "Feed limit reached."}
              /\ state'[ev'.user_id].feeds
                     = IF lapsed(Held.subscription, now) /\ ~ev'.privileged
                       THEN Take(Held.feeds, TIERS.free.max_feeds)
                       ELSE Held.feeds]_vars

\* C23 witness: the feed of the first host, typed over http, was refused as
\* already added.
C23_Witness ==
    /\ ev.op = "add_feed"
    /\ ev.url = Url("http", HostNames[1], "/feed")
    /\ ~ev.ok
    /\ ev.msg = "Feed already added."
    /\ validate_feed_url(ev.url).result \in SeqToSet(state[ev.user_id].feeds)

\* C28 (as stated; violated): add_feed of a valid URL that is not in the list,
\* called by the owner or an admin, is never refused with a feed-limit
\* message, however many feeds the account holds.
C28_PrivilegedNeverRefusedForQuota ==
    [][(AddsNew /\ ev'.privileged) =>
        ev'.msg \notin {"Feed limit reached (free tier).", "Feed limit reached."}]_vars

\* C30 (as stated; violated): upgrade_subscription with a tier the tier
\* table lacks answers false, add_feed with a URL that validate_feed_url
\* refuses answers a failure, and either call leaves the stored account
\* record (feeds, subscription, rate-limit lists) as it was.
C30_ValidationFailureChangesNothing ==
    [][/\ (Calls("upgrade_subscription") /\ ev'.args.tier \notin DOMAIN TIERS) =>
              /\ ~ev'.ok
              /\ state' = state
       /\ (Calls("add_feed") /\ ~validate_feed_url(ev'.url).valid) =>
              /\ ~ev'.ok
              /\ ev'.user_id \in DOMAIN state =>
                     state'[ev'.user_id] = state[ev'.user_id]]_vars

\* C34 (as stated; violated): when a non-privileged account with a lapsed
\* paid subscription and fewer than 3 feeds calls add_feed with a valid new
\* URL and the feed is added, the stored account has tier free and no expiry
\* after the call.
C34_AddFeedKeepsLazyDowngrade ==
    [][(/\ Calls("add_feed")
        /\ ev'.ok
        /\ ~ev'.privileged
        /\ FindsLapsed(run.user_id)
        /\ Len(state[run.user_id].feeds) < TIERS.free.max_feeds) =>
           /\ state'[run.user_id].subscription.tier = "free"
           /\ state'[run.user_id].subscription.expires_at = NoTime]_vars

-----------------------------------------------------------------------------
(* SpecDirectory: the identity directory.  Every message registers its      *)
(* sender under the handle it carries, if it carries one; identities change *)
(* their handle, take a handle another identity gave up, or have none.      *)

Handles == {None, "alice", "Alice", "bob", "carol"}

InitDirectory ==
    /\ config = EmptyConfig
    /\ state = EmptyState
    /\ username_map = EmptyMap
    /\ analytics = EmptyAnalytics
    /\ now = 0
    /\ ev = [op |-> "init"]
    /\ admitted = NoAdmissions
    /\ run = [user_id |-> UserIds[1]]
    /\ pc = NoProcs
    /\ lcl = NoProcs

\* register_user(user_id, username, first_name), in handle_message.
DirectoryRegister ==
    /\ \E user_id \in Users, username \in Handles :
        /\ username_map' = register_user(username_map, user_id, username, now)
        /\ ev' = [op |-> "register_user", user_id |-> user_id, username |-> username,
                  known |-> get_username_by_user_id(username_map, user_id)]
    /\ UNCHANGED <<config, state, analytics, now, admitted, run, pc, lcl>>

\* A lookup by handle, as add_admin and remove_admin make it.
DirectoryLookup ==
    /\ \E username \in Handles \ {None} :
        ev' = [op |-> "get_user_id_by_username", username |-> username,
               user_id |-> get_user_id_by_username(username_map, username)]
    /\ UNCHANGED <<config, state, username_map, analytics, now, admitted, run, pc, lcl>>

NextDirectory == DirectoryRegister \/ DirectoryLookup

SpecDirectory == InitDirectory /\ [][NextDirectory]_vars

-----------------------------------------------------------------------------
(* Claims checked under SpecDirectory *)

\* C24 (as stated; violated): the directory holds one entry per lower-cased
\* handle, and once an identity known under one handle is registered under a
\* different one, get_username_by_user_id answers the new handle.
C24_LatestHandleWins ==
    [][/\ \A h \in DOMAIN username_map' : lower(username_map'[h].username) = h
       /\ (/\ ev'.op = "register_user"
           /\ ev'.username # None
           /\ ev'.known # None
           /\ ev'.known # ev'.username) =>
              get_username_by_user_id(username_map', ev'.user_id) = ev'.username]_vars

-----------------------------------------------------------------------------
(* Further claims checked under SpecHook *)

\* The object of the event this step's request carries.
Carried == ev'.payload.doc.object

\* This step routed a verified event of the given type to its handler.
Routes(type) ==
    /\ ev'.op = "webhook"
    /\ ev'.verified
    /\ ev'.processed
    /\ ev'.payload.doc.kind = "object"
    /\ ev'.payload.doc.type = type

\* C25 (as stated; violated): a verified checkout or subscription-update
\* event that names a tier the tier table lacks, or an identity without an
\* account, leaves the store as it was and is answered without an error.
C25_UnknownTierOrIdentityDropped ==
    [][(/\ Routes("checkout.session.completed")
           \/ Routes("customer.subscription.updated")
        /\ Carried.telegram_user_id # None
        /\ Carried.tier # None
        /\ Carried.subscription # None
        /\ \/ Carried.tier \notin DOMAIN TIERS
           \/ Carried.telegram_user_id \notin DOMAIN state) =>
            /\ state' = state
            /\ ev'.status = 200]_vars

\* C26: a verified invoice.payment_failed event leaves the accounts, the
\* privilege record, the directory and the analytics as they were, whether
\* or not an account holds the event's customer reference.
C26_PaymentFailedChangesNothing ==
    [][Routes("invoice.payment_failed") =>
        /\ state' = state
        /\ config' = config
        /\ username_map' = username_map
        /\ analytics' = analytics
        /\ ev'.status = 200]_vars

\* C26 witness: a payment_failed event was routed while a subscriber's
\* account held its customer reference, and the account is still on pro.
C26_Witness ==
    /\ ev.op = "webhook"
    /\ ev.processed
    /\ ev.payload.doc.kind = "object"
    /\ ev.payload.doc.type = "invoice.payment_failed"
    /\ run.user_id \in payment_failed_matches(state, ev.payload.doc.object)
    /\ state[run.user_id].subscription.tier = "pro"

-----------------------------------------------------------------------------
(* SpecDigest: scheduled delivery.  run_scheduler's thread calls            *)
(* send_scheduled_digests every 15 minutes, and every POST to               *)
(* /trigger-digest calls it in a thread of the server.  A run takes the     *)
(* time, lists the accounts and, account by account, reads last_sent_date   *)
(* and the other tests, sends, and on success writes last_sent_date.  No    *)
(* step takes a lock: the code has none.  admitted keeps, per account, the  *)
(* times of the digests sent.                                               *)

Runners == {"scheduler", "trigger"}

SCHEDULE_MINUTES == 15

\* The owner and a plain user hold a feed each, an admin holds none.
DigestStore ==
    Stock(ensure_user(Stock(EmptyState, StaffedConfig, UserIds[1], 1, 0),
                      UserIds[2], 0),
          StaffedConfig, UserIds[3], 1, 0)

Idle == [phase |-> "idle"]

InitDigest ==
    /\ config = StaffedConfig
    /\ state = DigestStore
    /\ username_map = EmptyMap
    /\ analytics = EmptyAnalytics
    /\ now = Sec(8 * 3600)
    /\ ev = [op |-> "init"]
    /\ admitted = [k \in Users \X {"scheduled_digest"} |-> <<>>]
    /\ run = [left |-> [p \in Runners |-> MaxOps], ticks |-> MaxTicks]
    /\ pc = [p \in Runners |-> "idle"]
    /\ lcl = [p \in Runners |-> Idle]

DigestFrame == UNCHANGED <<config, username_map, analytics>>

\* now = datetime.now(timezone.utc); users = get_all_users()
DigestStart(p) ==
    /\ pc[p] = "idle"
    /\ run.left[p] > 0
    /\ run' = [run EXCEPT !.left[p] = @ - 1]
    /\ lcl' = [lcl EXCEPT ![p] = [started |-> now, users |-> get_all_users(state)]]
    /\ pc' = [pc EXCEPT ![p] = "loop"]
    /\ ev' = [op |-> "send_scheduled_digests", runner |-> p]
    /\ UNCHANGED <<state, now, admitted>>
    /\ DigestFrame

\* One pass of the loop up to send_message: the reads and the tests.
DigestTest(p) ==
    /\ pc[p] = "loop"
    /\ IF lcl[p].users = <<>>
       THEN /\ pc' = [pc EXCEPT ![p] = "idle"]
            /\ lcl' = [lcl EXCEPT ![p] = Idle]
            /\ ev' = [op |-> "return", runner |-> p]
            /\ UNCHANGED state
       ELSE LET user_id == Head(lcl[p].users)
            IN  /\ state' = ensure_user(state, user_id, now)
                /\ ev' = [op |-> "get_last_sent_date", runner |-> p, user_id |-> user_id]
                /\ IF is_due(state, user_id, lcl[p].started, now)
                   THEN /\ pc' = [pc EXCEPT ![p] = "send_message"]
                        /\ UNCHANGED lcl
                   ELSE /\ lcl' = [lcl EXCEPT ![p].users = Tail(@)]
                        /\ UNCHANGED pc
    /\ UNCHANGED <<now, admitted, run>>
    /\ DigestFrame

\* send_message(user_id, digest): the digest is delivered, or the call fails.
DigestSend(p) ==
    /\ pc[p] = "send_message"
    /\ \E sent \in BOOLEAN :
        LET user_id == Head(lcl[p].users)
        IN  /\ admitted' = IF sent
                           THEN [admitted EXCEPT ![<<user_id, "scheduled_digest">>] =
                                                      Append(@, now)]
                           ELSE admitted
            /\ pc' = [pc EXCEPT ![p] = IF sent THEN "set_last_sent_date" ELSE "loop"]
            /\ lcl' = IF sent THEN lcl ELSE [lcl EXCEPT ![p].users = Tail(@)]
            /\ ev' = [op |-> "send_message", runner |-> p, user_id |-> user_id,
                      sent |-> sent]
    /\ UNCHANGED <<state, now, run>>
    /\ DigestFrame

\* set_last_sent_date(user_id, today)
DigestMark(p) ==
    /\ pc[p] = "set_last_sent_date"
    /\ LET user_id == Head(lcl[p].users)
       IN  /\ state' = set_last_sent_date(state, user_id, Today(lcl[p].started), now)
           /\ ev' = [op |-> "set_last_sent_date", runner |-> p, user_id |-> user_id]
    /\ lcl' = [lcl EXCEPT ![p].users = Tail(@)]
    /\ pc' = [pc EXCEPT ![p] = "loop"]
    /\ UNCHANGED <<now, admitted, run>>
    /\ DigestFrame

\* The scheduler's period passes, or the rest of a day.
DigestTick ==
    /\ run.ticks > 0
    /\ run' = [run EXCEPT !.ticks = @ - 1]
    /\ \E d \in {Sec(SCHEDULE_MINUTES * 60), Days(1) - Sec(SCHEDULE_MINUTES * 60)} :
           now' = now + d
    /\ ev' = [op |-> "tick"]
    /\ UNCHANGED <<state, admitted, pc, lcl>>
    /\ DigestFrame

NextDigest ==
    \/ \E p \in Runners : DigestStart(p)
    \/ \E p \in Runners : DigestTest(p)
    \/ \E p \in Runners : DigestSend(p)
    \/ \E p \in Runners : DigestMark(p)
    \/ DigestTick

SpecDigest == InitDigest /\ [][NextDigest]_vars

-----------------------------------------------------------------------------
(* Claims checked under SpecDigest *)

\* C29 (as stated; violated): no account is sent two scheduled digests on
\* the same UTC date, however the scheduler's runs and the runs of
\* /trigger-digest interleave.
C29_OneDigestPerDay ==
    \A u \in Users :
        \A i, j \in DOMAIN admitted[<<u, "scheduled_digest">>] :
            Today(admitted[<<u, "scheduled_digest">>][i])
                = Today(admitted[<<u, "scheduled_digest">>][j]) => i = j

-----------------------------------------------------------------------------
(* SpecEntitle: entitlement reads.  One identity's account is read by       *)
(* get_tier_limits and is_subscription_active, upgraded, and the clock      *)
(* moves.  A run starts from a first session or from the store that         *)
(* migrate_state.py writes: one account on the pro tier with no expiry      *)
(* ("None = never expires"), for a chat that need not be the owner's.       *)

PLACEHOLDER == "YOUR_CHAT_ID_HERE"

\* What the old file holds under a key: feeds and digest_time.
OldEntry(n) ==
    [feeds |-> [i \in 1..n |-> Url("https", HostNames[i], "")], digest_time |-> "07:30"]

OldFiles(chat_id) ==
    {[k \in {} |-> OldEntry(0)]}
        \cup {(PLACEHOLDER :> OldEntry(n)) : n \in {1, NumHosts}}
        \cup {(chat_id :> OldEntry(n)) : n \in {0, NumHosts}}
        \cup {(chat_id :> OldEntry(1)) @@ (PLACEHOLDER :> OldEntry(2))}

\* The store the migration writes: chat_id alone, its feeds and digest_time
\* taken from its old entry, else from the placeholder's, else the defaults.
migrate(old_state, chat_id, t) ==
    LET fresh == [feeds |-> <<>>, digest_time |-> "08:00"]
        placeholder == IF PLACEHOLDER \in DOMAIN old_state
                       THEN old_state[PLACEHOLDER] ELSE fresh
        existing == IF chat_id \in DOMAIN old_state
                    THEN old_state[chat_id] ELSE placeholder
    IN  (chat_id :> [DefaultUser(t) EXCEPT !.feeds = existing.feeds,
                                           !.digest_time = existing.digest_time,
                                           !.subscription.tier = "pro"])

EntitleSessions ==
    {s \in FirstSessions : s.user_id \in {UserIds[1], UserIds[3]}}
        \cup {[config |-> OwnedConfig, user_id |-> u, state |-> migrate(old, u, 0)] :
                 u \in {UserIds[1], UserIds[3]},
                 old \in OldFiles(UserIds[1]) \cup OldFiles(UserIds[3])}

InitEntitle ==
    /\ \E s \in EntitleSessions :
          /\ config = s.config
          /\ state = s.state
          /\ run = [user_id |-> s.user_id, steps |-> MaxSteps, ticks |-> MaxDays,
                    applied |-> NoneApplied]
    /\ username_map = EmptyMap
    /\ analytics = EmptyAnalytics
    /\ now = 0
    /\ ev = [op |-> "init"]
    /\ admitted = NoAdmissions
    /\ pc = NoProcs
    /\ lcl = NoProcs

\* handle_status, handle_upgrade and handle_feedlist read the account's
\* figures through get_user_stats.
EntitleStats ==
    /\ LedgerCall
    /\ \E r \in {get_user_stats(state, config, run.user_id, now)} :
           /\ state' = r.st
           /\ ev' = [op |-> "get_user_stats", user_id |-> run.user_id,
                     stats |-> r.stats]
    /\ UNCHANGED config

NextEntitle ==
    \/ LedgerGetTierLimits
    \/ LedgerIsSubscriptionActive
    \/ EntitleStats
    \/ AcctUpgrade
    \/ AcctTick

SpecEntitle == InitEntitle /\ [][NextEntitle]_vars

-----------------------------------------------------------------------------
(* Claims checked under SpecEntitle *)

\* The stored account of user_id is a non-privileged paid one whose expiry
\* is unset or later than now.
ActivePaid(user_id) ==
    /\ user_id \in DOMAIN state
    /\ ~is_privileged(config, user_id)
    /\ state[user_id].subscription.tier = "pro"
    /\ \/ state[user_id].subscription.expires_at = NoTime
       \/ state[user_id].subscription.expires_at > now

\* C31 (as stated; violated): for a non-privileged account whose stored tier
\* is paid and whose expiry is unset or later than now, get_tier_limits
\* answers the paid tier's limits, is_subscription_active answers true, and
\* neither call changes the stored subscription.
C31_ActivePaidNeverUnderReported ==
    [][ActivePaid(run.user_id) =>
          /\ Calls("get_tier_limits") =>
                /\ ev'.limits = TIERS.pro
                /\ state'[run.user_id].subscription = state[run.user_id].subscription
          /\ Calls("is_subscription_active") =>
                /\ ev'.active
                /\ state'[run.user_id].subscription = state[run.user_id].subscription]_vars

\* C35 (as stated; violated): for a non-privileged account the tier,
\* feed_count and expires_at that get_user_stats reports are those of the
\* account as stored after the call, the state its tier_limits describe: the
\* result never pairs tier pro, or a feed_count above 3, with the free tier's
\* limits.
C35_StatsConsistentSnapshot ==
    (ev.op = "get_user_stats" /\ ~ev.stats.is_privileged) =>
        /\ ev.stats.tier = state[ev.user_id].subscription.tier
        /\ ev.stats.expires_at = state[ev.user_id].subscription.expires_at
        /\ ev.stats.feed_count = Len(state[ev.user_id].feeds)
        /\ ev.stats.tier_limits = TIERS.free =>
              /\ ev.stats.tier # "pro"
              /\ ev.stats.feed_count <= TIERS.free.max_feeds

-----------------------------------------------------------------------------
(* SpecGrant: entitlements given in chat.  The owner grants the identity    *)
(* under test some days of pro, the identity pays in Stars, and the clock   *)
(* moves.  A run starts after both have said /start; the identity holds no  *)
(* subscription yet, or one the processor has renewed up to day 45.         *)

GrantDays == {7, PRO_DURATION_DAYS, 2 * PRO_DURATION_DAYS}

GrantSessions(user_id) ==
    UNION {{w, [w EXCEPT !.state =
                   handle_subscription_updated(
                       w.state,
                       [telegram_user_id |-> user_id, tier |-> "pro",
                        subscription |-> "sub_1", customer |-> "cus_1",
                        status |-> "active", current_period_end |-> Days(45)], 0).st]} :
              w \in {Started(s, user_id) : s \in {Started(EmptyWorld, UserIds[1])}}}

InitGrant ==
    /\ run \in [user_id : Users \ {UserIds[1]}, steps : {MaxSteps}]
    /\ \E w \in GrantSessions(run.user_id) :
        /\ config = w.config
        /\ state = w.state
        /\ username_map = w.username_map
        /\ analytics = w.analytics
    /\ now = 0
    /\ ev = [op |-> "init"]
    /\ admitted = NoAdmissions
    /\ pc = NoProcs
    /\ lcl = NoProcs

\* One inbound message that gives days of pro when it is handled.
GrantDeliver(message, env, days) ==
    \E r \in {handle_message(Stored, message, env, now)} :
        /\ Store(r.w)
        /\ ev' = [op |-> "message", user_id |-> message.user_id,
                  handler |-> r.handler, reply |-> r.reply, days |-> days]
        /\ UNCHANGED now

\* /owner grant <target> <days>, typed by the owner.
GrantByOwner ==
    /\ ChatCall
    /\ \E x \in Targets, n \in GrantDays :
        GrantDeliver(TextMessage(UserIds[1],
                                 Typed("/owner", [subcommand |-> "grant", target |-> x,
                                                  days |-> [n |-> n]])),
                     [entries |-> FALSE, username |-> None], n)

\* A successful Stars payment of the identity under test.
GrantByPayment ==
    /\ ChatCall
    /\ \E payment \in Payments(run.user_id),
          username \in known_as(username_map, run.user_id) :
        GrantDeliver(PaymentMessage(run.user_id, payment),
                     [entries |-> FALSE, username |-> username], PRO_DURATION_DAYS)

NextGrant ==
    \/ GrantByOwner
    \/ GrantByPayment
    \/ ChatTick

SpecGrant == InitGrant /\ [][NextGrant]_vars

-----------------------------------------------------------------------------
(* Claims checked under SpecGrant *)

\* C37 (as stated; violated): when the owner grants N days, or a Stars
\* payment is handled, for an account whose stored paid expiry is later than
\* now + N days (N = 30 for a payment), the stored expiry after the operation
\* is not earlier than the one before it.
C37_GrantNeverShortens ==
    [][(/\ run'.steps < run.steps
        /\ ev'.op = "message"
        /\ run.user_id \in DOMAIN state
        /\ state[run.user_id].subscription.tier = "pro"
        /\ state[run.user_id].subscription.expires_at > now + Days(ev'.days)) =>
           state'[run.user_id].subscription.expires_at
               >= state[run.user_id].subscription.expires_at]_vars

=============================================================================
